---------------------------- MODULE Spec2Model ----------------------------
(***************************************************************************)
(* A model of the ADNI document catalog pipeline and its MCP server:       *)
(*   crawlers/adni.py         discovery merge and document/page classifier *)
(*   crawlers/adni_curate.py  taxonomy classifier and curation run         *)
(*   mcp_server/server.py     catalog search, category list, PDF fetch     *)
(*                                                                         *)
(* Python strings are sequences of one-character strings, so that          *)
(* lower(), split(), replace() and the substring test are computed and not *)
(* assumed.  A Python dict whose key may be missing is a record whose      *)
(* DOMAIN may lack the field.                                              *)
(***************************************************************************)
EXTENDS Integers, Sequences, FiniteSets, TLC

VARIABLES
    all_urls,        \* crawler: the list handed to filter_and_categorize_links
    organized_data,  \* crawler: what filter_and_categorize_links returned
    doc_title,       \* taxonomy: the title handed to categorize_document
    doc_url,         \* taxonomy: the URL handed to categorize_document
    categorized,     \* taxonomy: what categorize_document returned
    raw_file,        \* pipeline: data/adni_raw.json
    curated_file,    \* pipeline: adni_documents_curated.json
    crawl_run,       \* pipeline: how the run of adni.py ended, and its inputs
    curate_run,      \* pipeline: how the run of adni_curate.py ended, and
                     \*           its local variables at that point
    first_run,       \* pipeline: the service results and the files of the
                     \*           first pass, once a second pass has begun
    catalog,         \* server: results/adni.json, read by every tool call
    cache,           \* server: data/pdf_cache, one entry per cache file name
    resp,            \* server: what the last tool call returned
    call,            \* server: the last tool call, and what it did on the way
    fetched,         \* server: per URL, what its fetches have done so far
    origin,          \* server: per URL, what every download of it meets
                     \*         while several fetches are in progress
    callers          \* server: per caller, where its fetch_pdf call stands
                     \*         and what it has returned

crawlVars == <<all_urls, organized_data>>
taxonomyVars == <<doc_title, doc_url, categorized>>
pipelineVars == <<raw_file, curated_file, crawl_run, curate_run, first_run>>
serverVars == <<catalog, cache, resp, call, fetched, origin, callers>>
vars == <<all_urls, organized_data, doc_title, doc_url, categorized,
          raw_file, curated_file, crawl_run, curate_run, first_run,
          catalog, cache, resp, call, fetched, origin, callers>>

\* a local name for a value: v is computed once and handed to Body
Bind(v, Body(_)) == CHOOSE r \in {Body(x) : x \in {v}} : TRUE

(***************************************************************************)
(* Python str operations                                                   *)
(***************************************************************************)
UpperChars == <<"A","B","C","D","E","F","G","H","I","J","K","L","M","N","O","P","Q","R","S","T","U","V","W","X","Y","Z">>
LowerChars == <<"a","b","c","d","e","f","g","h","i","j","k","l","m","n","o","p","q","r","s","t","u","v","w","x","y","z">>

LowerMap ==
    [c \in {UpperChars[i] : i \in 1..Len(UpperChars)} |->
        LowerChars[CHOOSE i \in 1..Len(UpperChars) : UpperChars[i] = c]]

\* str.lower() on one character
LowerChar(c) == IF c \in DOMAIN LowerMap THEN LowerMap[c] ELSE c

\* str.lower()
Lower(s) ==
    Bind(s, LAMBDA x : IF x = <<>> THEN <<>> ELSE [i \in 1..Len(x) |-> LowerChar(x[i])])

\* s[i:i+len(t)] == t, for values s and t
MatchAt(s, t, i) ==
    /\ i + Len(t) - 1 <= Len(s)
    /\ \A j \in 1..Len(t) : s[i + j - 1] = t[j]

\* t in s
Contains(s, t) ==
    \E x \in {s} : \E y \in {t} : \E i \in 1..(Len(x) - Len(y) + 1) : MatchAt(x, y, i)

\* any(term in s for term in terms)
ContainsAny(s, terms) ==
    \E x \in {s} : \E k \in 1..Len(terms) : Contains(x, terms[k])

\* the index of the last c in s, 0 when there is none
LastIndexOf(s, c) ==
    Bind(s, LAMBDA x :
        IF \E i \in 1..Len(x) : x[i] = c
        THEN CHOOSE i \in 1..Len(x) : x[i] = c /\ \A j \in (i+1)..Len(x) : x[j] # c
        ELSE 0)

\* the index of the first c in s, 0 when there is none
FirstIndexOf(s, c) ==
    Bind(s, LAMBDA x :
        IF \E i \in 1..Len(x) : x[i] = c
        THEN CHOOSE i \in 1..Len(x) : x[i] = c /\ \A j \in 1..(i-1) : x[j] # c
        ELSE 0)

\* s.split(c)[-1]
SplitLast(s, c) ==
    Bind(s, LAMBDA x : SubSeq(x, LastIndexOf(x, c) + 1, Len(x)))

\* s.split(c)[0]
SplitFirst(s, c) ==
    Bind(s, LAMBDA x : Bind(FirstIndexOf(x, c), LAMBDA k :
        IF k = 0 THEN x ELSE SubSeq(x, 1, k - 1)))

\* len(s.split(c))
SplitCount(s, c) ==
    Bind(s, LAMBDA x : Cardinality({i \in 1..Len(x) : x[i] = c}) + 1)

RECURSIVE ReplaceFrom(_, _, _, _)
ReplaceFrom(s, old, new, i) ==
    IF i > Len(s) THEN <<>>
    ELSE IF MatchAt(s, old, i)
         THEN new \o ReplaceFrom(s, old, new, i + Len(old))
         ELSE <<s[i]>> \o ReplaceFrom(s, old, new, i + 1)

\* s.replace(old, new), old not empty
Replace(s, old, new) == Bind(s, LAMBDA x : ReplaceFrom(x, old, new, 1))

(***************************************************************************)
(* crawlers/adni.py: filter_and_categorize_links                           *)
(***************************************************************************)
PublicationTerms ==
    << <<"p","u","b","l","i","c","a","t","i","o","n">>, <<"a","d","n","i","-","p","u","b","l","i","c","a","t","i","o","n","s">>, <<"/","w","p","-","c","o","n","t","e","n","t","/","u","p","l","o","a","d","s","/","p","a","p","e","r","s","/">> >>

document_extensions ==
    { <<"p","d","f">>, <<"d","o","c">>, <<"d","o","c","x">>, <<"x","l","s">>, <<"x","l","s","x">>, <<"p","p","t">>, <<"p","p","t","x">>, <<"p","n","g">>, <<"j","p","g">> }

\* the mutant of IsPublication: the terms tested against the URL as written
IsPublicationCaseSensitive(url) == ContainsAny(url, PublicationTerms)

\* any(term in url.lower() for term in [...])
IsPublication(url) == ContainsAny(Lower(url), PublicationTerms)

\* the first loop: (filtered_urls, publications_filtered)
RECURSIVE FilterLoop(_, _, _, _)
FilterLoop(urls, i, filtered_urls, publications_filtered) ==
    IF i > Len(urls) THEN <<filtered_urls, publications_filtered>>
    ELSE IF IsPublication(urls[i])
         THEN FilterLoop(urls, i + 1, filtered_urls, publications_filtered + 1)
         ELSE FilterLoop(urls, i + 1, Append(filtered_urls, urls[i]),
                         publications_filtered)

\* ext as the code computes it: the last '.'-part of the last '/'-part,
\* lowercased, cut at its first '?'
CodeExt(url) == SplitFirst(Lower(SplitLast(SplitLast(url, "/"), ".")), "?")

\* is_document
IsDocument(url) ==
    /\ Contains(url, <<".">>)
    /\ SplitCount(SplitLast(url, "/"), ".") > 1
    /\ CodeExt(url) \in document_extensions

\* the title taken from the file name
FilenameTitle(url) ==
    Replace(Replace(SplitFirst(SplitLast(url, "/"), "?"), <<"%","2","0">>, <<" ">>),
            <<"_">>, <<" ">>)

DocumentRecord(url) ==
    [url |-> url, title |-> FilenameTitle(url),
     file_extension |-> CodeExt(url), type |-> "document"]

PageRecord(url) == [url |-> url, type |-> "page"]

\* the second loop: (documents, pages)
RECURSIVE CategorizeLoop(_, _, _, _)
CategorizeLoop(urls, i, documents, pages) ==
    IF i > Len(urls) THEN <<documents, pages>>
    ELSE IF IsDocument(urls[i])
         THEN CategorizeLoop(urls, i + 1,
                             Append(documents, DocumentRecord(urls[i])), pages)
         ELSE CategorizeLoop(urls, i + 1, documents,
                             Append(pages, PageRecord(urls[i])))

filter_and_categorize_links(urls) ==
    Bind(FilterLoop(urls, 1, <<>>, 0), LAMBDA f :
    Bind(CategorizeLoop(f[1], 1, <<>>, <<>>), LAMBDA c :
        [metadata |-> [total_links |-> Len(f[1]),
                       documents_count |-> Len(c[1]),
                       pages_count |-> Len(c[2]),
                       publications_filtered |-> f[2],
                       source |-> "adni.loni.usc.edu"],
         documents |-> c[1],
         pages |-> c[2]]))

(***************************************************************************)
(* The URLs the model draws from                                           *)
(***************************************************************************)
Site == <<"h","t","t","p","s",":","/","/","a","d","n","i",".","l","o","n","i",".","u","s","c",".","e","d","u">>

\* what follows the file name: an extension, a query string, both or neither
UrlTails ==
    { <<>>, <<".","p","d","f">>, <<".","P","D","F">>, <<".","p","n","g">>, <<".","h","t","m","l">>, <<".","d","o","c","x">>,
      <<".","p","d","f","?","v","=","1">>, <<".","p","d","f","?","v","=","1",".","2">>, <<"?","f","=","a",".","p","d","f">>, <<".","h","t","m","l","?","f","=","a",".","p","d","f">> }

PublicationDirs ==
    { <<"/","P","u","b","l","i","c","a","t","i","o","n","s","/">>, <<"/","a","d","n","i","-","p","u","b","l","i","c","a","t","i","o","n","s","/">>, <<"/","w","p","-","c","o","n","t","e","n","t","/","u","p","l","o","a","d","s","/","p","a","p","e","r","s","/">> }

\* documents and pages below one directory, with and without a query string
PlainUrls ==
    { Site \o <<"/","w","p","-","c","o","n","t","e","n","t","/","u","p","l","o","a","d","s","/","A","D","N","I","_","M","R","I","%","2","0","O","v","e","r","v","i","e","w">> \o tail : tail \in UrlTails }

\* URLs the publication rule drops, whatever their type
PublicationUrls ==
    { Site \o d \o <<"p","a","p","e","r",".","p","d","f">> : d \in PublicationDirs }
    \cup { Site \o <<"/","p","u","b","l","i","c","a","t","i","o","n","s">>, Site \o <<"/","d","o","c","s","/","A","D","N","I","_","P","u","b","l","i","c","a","t","i","o","n","_","P","o","l","i","c","y",".","p","d","f">> }

\* URLs with an empty or a path-less final segment
BareUrls == { Site, Site \o <<"/">>, Site \o <<"/","m","e","e","t","i","n","g","n","o","t","e","s","/","N","o","t","e","s","_","2","0","2","0",".","p","d","f">> }

UrlPool == PlainUrls \cup PublicationUrls \cup BareUrls

MaxUrls == 2

RECURSIVE SeqsUpTo(_, _)
SeqsUpTo(S, n) ==
    IF n = 0 THEN {<<>>}
    ELSE LET shorter == SeqsUpTo(S, n - 1)
         IN  shorter \cup {Append(s, x) : s \in shorter, x \in S}

UrlLists == SeqsUpTo(UrlPool, MaxUrls)

NotRun == [ran |-> FALSE]

(***************************************************************************)
(* crawlers/adni_curate.py: ADNI_STRUCTURE and categorize_document         *)
(***************************************************************************)
\* Python's None
None == <<"None">>

\* the dict literal, in declaration order: a dict iterates in insertion order
ADNI_STRUCTURE == <<
    [category |-> <<"M","R","I"," ","P","r","o","t","o","c","o","l","s">>, subcategories |-> <<
        [subcat |-> <<"G","e","n","e","r","a","l">>, keywords |-> <<
            <<"A","D","N","I"," ","M","R","I"," ","O","v","e","r","v","i","e","w">>, <<"A","D","N","I"," ","M","R","I"," ","M","e","t","h","o","d"," ","f","o","r"," ","N","o","n","-","A","D","N","I"," ","S","t","u","d","i","e","s">>,
            <<"M","R","I"," ","A","c","q","u","i","s","i","t","i","o","n"," ","T","a","b","l","e">> >>],
        [subcat |-> <<"A","D","N","I","3">>, keywords |-> <<
            <<"A","D","N","I","3"," ","M","R","I"," ","A","n","a","l","y","s","i","s"," ","M","a","n","u","a","l">>, <<"A","D","N","I","3"," ","M","R","I"," ","T","e","c","h","n","i","c","a","l"," ","M","a","n","u","a","l">>,
            <<"A","D","N","I"," ","3"," ","M","R","I"," ","P","r","o","t","o","c","o","l","s"," ","Q","u","i","c","k"," ","G","u","i","d","e">>, <<"A","D","N","I","3"," ","M","R","I"," ","S","c","a","n","n","e","r"," ","P","r","o","t","o","c","o","l","s">> >>],
        [subcat |-> <<"A","D","N","I","2","/","G","O">>, keywords |-> <<
            <<"A","D","N","I"," ","G","O"," ","M","R","I"," ","T","e","c","h","n","i","c","a","l"," ","P","r","o","c","e","d","u","r","e","s">>, <<"A","D","N","I"," ","G","O","/","2"," ","M","R","I"," ","T","r","a","i","n","i","n","g"," ","M","a","n","u","a","l">>,
            <<"A","D","N","I"," ","2"," ","M","R","I"," ","T","e","c","h","n","i","c","a","l"," ","P","r","o","c","e","d","u","r","e","s">>, <<"A","D","N","I","2","/","G","O"," ","M","R","I"," ","S","c","a","n","n","e","r"," ","P","r","o","t","o","c","o","l","s">> >>],
        [subcat |-> <<"A","D","N","I","1">>, keywords |-> <<
            <<"A","D","N","I"," ","1"," ","M","R","I"," ","T","e","c","h","n","i","c","a","l"," ","P","r","o","c","e","d","u","r","e","s">>,
            <<"A","D","N","I"," ","M","R","I"," ","C","o","r","e"," ","P","r","o","t","o","c","o","l"," ","S","e","l","e","c","t","i","o","n"," ","S","u","m","m","a","r","y">>,
            <<"A","D","N","I","1"," ","M","R","I"," ","S","c","a","n","n","e","r"," ","P","r","o","t","o","c","o","l","s">>, <<"A","D","N","I","1"," ","S","t","a","n","d","a","r","d","i","z","e","d"," ","M","R","I"," ","C","o","l","l","e","c","t","i","o","n","s">>,
            <<"A","D","N","I","1"," ","M","R","I"," ","P","r","o","c","e","s","s","e","d"," ","I","m","a","g","e"," ","T","y","p","e","s">> >>] >>],
    [category |-> <<"P","E","T"," ","P","r","o","t","o","c","o","l","s">>, subcategories |-> <<
        [subcat |-> <<"G","e","n","e","r","a","l">>, keywords |-> <<
            <<"A","D","N","I"," ","1"," ","P","E","T"," ","T","e","c","h","n","i","c","a","l"," ","P","r","o","c","e","d","u","r","e","s">>, <<"P","E","T"," ","P","I","B"," ","T","e","c","h","n","i","c","a","l"," ","M","a","n","u","a","l">>,
            <<"A","D","N","I"," ","G","O"," ","P","E","T"," ","T","e","c","h","n","i","c","a","l"," ","P","r","o","c","e","d","u","r","e","s">>, <<"A","D","N","I"," ","2"," ","P","E","T"," ","T","e","c","h","n","i","c","a","l"," ","P","r","o","c","e","d","u","r","e","s">>,
            <<"A","D","N","I"," ","3"," ","P","E","T"," ","T","e","c","h","n","i","c","a","l"," ","M","a","n","u","a","l">>, <<"A","D","N","I"," ","C","e","n","t","i","l","o","i","d","s">> >>] >>],
    [category |-> <<"C","l","i","n","i","c","a","l"," ","P","r","o","t","o","c","o","l","s">>, subcategories |-> <<
        [subcat |-> <<"A","D","N","I","1">>, keywords |-> << <<"A","D","N","I"," ","1"," ","C","l","i","n","i","c","a","l"," ","P","r","o","t","o","c","o","l","s">> >>],
        [subcat |-> <<"A","D","N","I"," ","G","O">>, keywords |-> << <<"A","D","N","I"," ","G","O"," ","C","l","i","n","i","c","a","l"," ","P","r","o","t","o","c","o","l","s">> >>],
        [subcat |-> <<"A","D","N","I","2">>, keywords |-> << <<"A","D","N","I"," ","2"," ","C","l","i","n","i","c","a","l"," ","P","r","o","t","o","c","o","l","s">> >>],
        [subcat |-> <<"A","D","N","I","3">>, keywords |-> << <<"A","D","N","I"," ","3"," ","C","l","i","n","i","c","a","l"," ","P","r","o","t","o","c","o","l","s">> >>] >>],
    [category |-> <<"B","i","o","s","p","e","c","i","m","e","n"," ","P","r","o","t","o","c","o","l","s">>, subcategories |-> <<
        [subcat |-> <<"C","S","F">>, keywords |-> <<
            <<"C","S","F"," ","B","i","o","m","a","r","k","e","r"," ","T","e","s","t"," ","I","n","s","t","r","u","c","t","i","o","n","s">>, <<"L","u","m","b","a","r"," ","P","u","n","c","t","u","r","e"," ","P","r","o","t","o","c","o","l">> >>],
        [subcat |-> <<"B","r","a","i","n"," ","T","i","s","s","u","e">>, keywords |-> <<
            <<"N","e","u","r","o","p","a","t","h","o","l","o","g","y"," ","S","o","r","t"," ","P","r","o","t","o","c","o","l">>, <<"N","e","u","r","o","p","a","t","h","o","l","o","g","y"," ","M","a","n","u","a","l">> >>],
        [subcat |-> <<"S","a","m","p","l","e","s">>, keywords |-> <<
            <<"A","D","N","I","3"," ","B","i","o","m","a","r","k","e","r"," ","S","a","m","p","l","e"," ","C","o","l","l","e","c","t","i","o","n">>, <<"G","e","n","e","t","i","c","s"," ","S","a","m","p","l","e"," ","C","o","l","l","e","c","t","i","o","n">>,
            <<"B","i","o","f","l","u","i","d"," ","C","o","l","l","e","c","t","i","o","n","s">> >>] >>],
    [category |-> <<"P","o","l","i","c","i","e","s"," ","a","n","d"," ","P","r","o","c","e","d","u","r","e","s">>, subcategories |-> <<
        [subcat |-> <<"G","e","n","e","r","a","l">>, keywords |-> <<
            <<"D","a","t","a"," ","S","h","a","r","i","n","g"," ","a","n","d"," ","P","u","b","l","i","c","a","t","i","o","n"," ","P","o","l","i","c","y">>, <<"A","D","N","I"," ","D","a","t","a"," ","U","s","e"," ","A","g","r","e","e","m","e","n","t">>,
            <<"A","D","N","I"," ","M","a","n","u","s","c","r","i","p","t"," ","C","i","t","a","t","i","o","n","s">>, <<"A","D","N","I"," ","A","c","k","n","o","w","l","e","d","g","e","m","e","n","t"," ","L","i","s","t">>,
            <<"G","r","o","u","p","s"," ","A","c","k","n","o","w","l","d","g","e","m","e","n","t","s">>, <<"A","c","c","e","s","s"," ","t","o"," ","A","D","N","I"," ","S","a","m","p","l","e","s">>,
            <<"A","D","N","I"," ","R","A","R","C"," ","B","i","o","m","a","r","k","e","r"," ","A","p","p","l","i","c","a","t","i","o","n">>, <<"A","D","N","I"," ","R","A","R","C"," ","B","i","o","m","a","r","k","e","r"," ","P","o","l","i","c","i","e","s">> >>] >>],
    [category |-> <<"C","o","n","s","e","n","t"," ","F","o","r","m","s">>, subcategories |-> <<
        [subcat |-> <<"A","D","N","I","4">>, keywords |-> <<
            <<"A","D","N","I","4"," ","C","l","i","n","i","c","a","l"," ","T","o"," ","D","i","g","i","t","a","l"," ","S","t","u","d","y"," ","P","a","r","t","n","e","r">>, <<"A","D","N","I","4"," ","R","e","m","o","t","e"," ","B","l","o","o","d"," ","C","o","h","o","r","t">>,
            <<"A","D","N","I","4"," ","R","e","m","o","t","e"," ","D","i","g","i","t","a","l"," ","C","o","h","o","r","t">>, <<"A","D","N","I","4"," ","R","e","m","o","t","e"," ","D","i","g","i","t","a","l"," ","S","t","u","d","y"," ","P","a","r","t","n","e","r">>,
            <<"A","D","N","I","4"," ","C","l","i","n","i","c","a","l"," ","T","o"," ","D","i","g","i","t","a","l"," ","M","o","n","i","t","o","r","i","n","g">>, <<"N","e","w"," ","P","a","r","t","i","c","i","p","a","n","t"," ","I","C","F">>,
            <<"R","o","l","l","o","v","e","r"," ","P","a","r","t","i","c","i","p","a","n","t"," ","I","C","F">>, <<"S","t","u","d","y"," ","P","a","r","t","n","e","r"," ","I","C","F">>, <<"T","e","l","e","p","h","o","n","e"," ","V","i","s","i","t"," ","I","C","F">>,
            <<"A","m","y","l","o","i","d"," ","P","E","T"," ","S","c","a","n">> >>],
        [subcat |-> <<"A","D","N","I","3">>, keywords |-> <<
            <<"A","D","N","I","3"," ","P","r","o","t","o","c","o","l","V","e","r","s","i","o","n">>, <<"A","D","N","I","3","_","S","a","m","p","l","e","_","E","a","r","l","y"," ","F","r","a","m","e","s">>,
            <<"A","D","N","I","3","_","S","a","m","p","l","e","_","B","r","a","i","n"," ","D","o","n","a","t","i","o","n">>, <<"A","D","N","I","3"," ","S","a","m","p","l","e"," ","N","e","w"," ","S","u","b","j","e","c","t">>,
            <<"A","D","N","I","3"," ","S","a","m","p","l","e","_","R","o","l","l","o","v","e","r"," ","S","u","b","j","e","c","t">>,
            <<"A","D","N","I","3"," ","S","a","m","p","l","e"," ","T","e","l","e","p","h","o","n","e"," ","V","i","s","i","t"," ","A","d","d","e","n","d","u","m">>,
            <<"A","D","N","I","3"," ","S","a","m","p","l","e"," ","T","e","l","e","p","h","o","n","e"," ","V","i","s","i","t"," ","I","C","F">>, <<"A","D","N","I","3"," ","S","c","h","e","d","u","l","e"," ","o","f"," ","A","c","t","i","v","i","t","e","s">> >>],
        [subcat |-> <<"A","D","N","I","2">>, keywords |-> <<
            <<"A","D","N","I","2"," ","S","a","m","p","l","e"," ","N","e","w"," ","S","u","b","j","e","c","t","s">>, <<"A","D","N","I","2"," ","S","a","m","p","l","e"," ","F","o","l","l","o","w","-","u","p"," ","S","u","b","j","e","c","t","s">> >>] >>]
    >>

MeetingTitleTerms == << <<"m","e","e","t","i","n","g">>, <<"n","o","t","e","s">> >>
MeetingUrlTerms == << <<"m","e","e","t","i","n","g","n","o","t","e","s">>, <<"m","e","e","t","i","n","g","_","n","o","t","e","s">> >>

\* the "Skip meeting notes" test
IsMeetingNotes(title_lower, url_lower) ==
    /\ ContainsAny(title_lower, MeetingTitleTerms)
    /\ ContainsAny(url_lower, MeetingUrlTerms)

\* for keyword in keywords: if keyword.lower() in title_lower
AnyKeyword(keywords, title_lower) ==
    \E k \in 1..Len(keywords) : Contains(title_lower, Lower(keywords[k]))

\* for subcat, keywords in subcategories.items(): the first subcat that holds
\* a keyword of the title, None when there is none
RECURSIVE ScanSubcategories(_, _, _)
ScanSubcategories(subcategories, j, title_lower) ==
    IF j > Len(subcategories) THEN None
    ELSE IF AnyKeyword(subcategories[j].keywords, title_lower)
         THEN subcategories[j].subcat
         ELSE ScanSubcategories(subcategories, j + 1, title_lower)

\* for category, subcategories in ADNI_STRUCTURE.items()
RECURSIVE ScanCategories(_, _)
ScanCategories(i, title_lower) ==
    IF i > Len(ADNI_STRUCTURE) THEN <<None, None>>
    ELSE Bind(ScanSubcategories(ADNI_STRUCTURE[i].subcategories, 1, title_lower),
              LAMBDA subcat :
                  IF subcat # None
                  THEN <<ADNI_STRUCTURE[i].category, subcat>>
                  ELSE ScanCategories(i + 1, title_lower))

\* "Auto-categorize based on keywords": the if/elif chain
AutoCategorize(title_lower) ==
    IF Contains(title_lower, <<"m","r","i">>) THEN << <<"M","R","I"," ","P","r","o","t","o","c","o","l","s">>, <<"O","t","h","e","r">> >>
    ELSE IF Contains(title_lower, <<"p","e","t">>) THEN << <<"P","E","T"," ","P","r","o","t","o","c","o","l","s">>, <<"O","t","h","e","r">> >>
    ELSE IF Contains(title_lower, <<"c","l","i","n","i","c","a","l">>) \/ Contains(title_lower, <<"p","r","o","t","o","c","o","l">>)
         THEN << <<"C","l","i","n","i","c","a","l"," ","P","r","o","t","o","c","o","l","s">>, <<"O","t","h","e","r">> >>
    ELSE IF Contains(title_lower, <<"c","o","n","s","e","n","t">>) \/ Contains(title_lower, <<"i","c","f">>)
         THEN << <<"C","o","n","s","e","n","t"," ","F","o","r","m","s">>, <<"O","t","h","e","r">> >>
    ELSE IF \/ Contains(title_lower, <<"b","i","o","s","p","e","c","i","m","e","n">>)
            \/ Contains(title_lower, <<"b","i","o","f","l","u","i","d">>)
            \/ Contains(title_lower, <<"c","s","f">>)
         THEN << <<"B","i","o","s","p","e","c","i","m","e","n"," ","P","r","o","t","o","c","o","l","s">>, <<"O","t","h","e","r">> >>
    ELSE IF \/ Contains(title_lower, <<"p","o","l","i","c","y">>)
            \/ Contains(title_lower, <<"p","r","o","c","e","d","u","r","e","s">>)
            \/ Contains(title_lower, <<"a","g","r","e","e","m","e","n","t">>)
         THEN << <<"P","o","l","i","c","i","e","s"," ","a","n","d"," ","P","r","o","c","e","d","u","r","e","s">>, <<"O","t","h","e","r">> >>
    ELSE << <<"O","t","h","e","r">>, <<"U","n","c","a","t","e","g","o","r","i","z","e","d">> >>

\* the mutant of categorize_document: the keyword table consulted before the
\* meeting-notes test
categorize_document_table_first(title, url) ==
    Bind(Lower(title), LAMBDA title_lower :
    Bind(Lower(url), LAMBDA url_lower :
    Bind(ScanCategories(1, title_lower), LAMBDA found :
        IF found # <<None, None>> THEN found
        ELSE IF IsMeetingNotes(title_lower, url_lower) THEN <<None, None>>
        ELSE AutoCategorize(title_lower))))

\* (category, subcat), or (None, None) to skip
categorize_document(title, url) ==
    Bind(Lower(title), LAMBDA title_lower :
    Bind(Lower(url), LAMBDA url_lower :
        IF IsMeetingNotes(title_lower, url_lower) THEN <<None, None>>
        ELSE Bind(ScanCategories(1, title_lower), LAMBDA found :
                 IF found # <<None, None>> THEN found
                 ELSE AutoCategorize(title_lower))))

(***************************************************************************)
(* The titles the model draws from                                         *)
(***************************************************************************)
\* fragments that are combined: two table keywords of different categories,
\* a meeting-notes title, and one term of each fallback rule
CoreFragments ==
    { <<"A","D","N","I"," ","M","R","I"," ","O","v","e","r","v","i","e","w">>, <<"A","m","y","l","o","i","d"," ","P","E","T"," ","S","c","a","n">>, <<"M","e","e","t","i","n","g"," ","N","o","t","e","s">>,
      <<"M","R","I">>, <<"p","e","t">>, <<"C","l","i","n","i","c","a","l">>, <<"i","c","f">>, <<"C","S","F">>, <<"P","o","l","i","c","y">> }

\* titles that are used alone: the remaining fallback terms, table keywords
\* that hold a fallback term of an earlier rule, and the unrelated title
SingleTitles ==
    { <<"A","D","N","I","3"," ","M","R","I"," ","A","n","a","l","y","s","i","s"," ","M","a","n","u","a","l"," ","v","2">>, <<"S","i","t","e"," ","V","i","s","i","t"," ","M","e","e","t","i","n","g"," ","N","o","t","e","s"," ","2","0","2","0">>,
      <<"R","a","n","d","o","m"," ","U","n","r","e","l","a","t","e","d"," ","F","o","r","m">>, <<"A","D","N","I"," ","1"," ","P","E","T"," ","T","e","c","h","n","i","c","a","l"," ","P","r","o","c","e","d","u","r","e","s">>,
      <<"A","D","N","I"," ","2"," ","C","l","i","n","i","c","a","l"," ","P","r","o","t","o","c","o","l","s">>, <<"L","u","m","b","a","r"," ","P","u","n","c","t","u","r","e"," ","P","r","o","t","o","c","o","l">>,
      <<"A","D","N","I"," ","D","a","t","a"," ","U","s","e"," ","A","g","r","e","e","m","e","n","t">>, <<"S","t","u","d","y"," ","p","r","o","t","o","c","o","l">>, <<"I","n","f","o","r","m","e","d"," ","C","o","n","s","e","n","t">>,
      <<"B","i","o","s","p","e","c","i","m","e","n"," ","i","n","v","e","n","t","o","r","y">>, <<"B","i","o","f","l","u","i","d"," ","l","o","g">>, <<"S","t","a","n","d","a","r","d"," ","P","r","o","c","e","d","u","r","e","s">>,
      <<"U","s","e","r"," ","a","g","r","e","e","m","e","n","t">>, <<"m","e","e","t","i","n","g">>, <<"l","a","b"," ","n","o","t","e","s">>, <<>> }

MaxFragments == 2

RECURSIVE JoinWords(_)
JoinWords(words) ==
    IF words = <<>> THEN <<>>
    ELSE IF Len(words) = 1 THEN words[1]
    ELSE words[1] \o <<" ">> \o JoinWords(Tail(words))

TitlePool ==
    SingleTitles \cup {JoinWords(w) : w \in SeqsUpTo(CoreFragments, MaxFragments)}

\* where a document may live: a plain upload and two meeting-notes folders
DocUrlPool ==
    { Site \o <<"/","w","p","-","c","o","n","t","e","n","t","/","u","p","l","o","a","d","s","/","d","o","c",".","p","d","f">>,
      Site \o <<"/","w","p","-","c","o","n","t","e","n","t","/","u","p","l","o","a","d","s","/","M","e","e","t","i","n","g","N","o","t","e","s","/","d","o","c",".","p","d","f">>,
      Site \o <<"/","w","p","-","c","o","n","t","e","n","t","/","u","p","l","o","a","d","s","/","m","e","e","t","i","n","g","_","n","o","t","e","s","/","d","o","c",".","p","d","f">> }

(***************************************************************************)
(* crawlers/adni.py: main                                                  *)
(***************************************************************************)
\* a file that does not exist
NoFile == [exists |-> FALSE]

\* list(set(...)): the distinct values, in an order the set's hashing picks
RECURSIVE Orderings(_)
Orderings(S) ==
    IF S = {} THEN {<<>>}
    ELSE UNION { {<<x>> \o rest : rest \in Orderings(S \ {x})} : x \in S }

Range(s) == {s[i] : i \in 1..Len(s)}

\* a URL without its scheme and its trailing slash, in lower case
SchemeFree(url) == IF Contains(url, <<":","/","/">>) THEN SplitLast(url, ":") ELSE url
SlashFree(url) ==
    IF url # <<>> /\ url[Len(url)] = "/" THEN SubSeq(url, 1, Len(url) - 1) ELSE url
NormalForm(url) == Lower(SlashFree(SchemeFree(url)))

\* the mutant of MergedUrlSet: URLs that differ only in scheme, case or
\* trailing slash are merged into one of them
MergedUrlSetNormalized(all_page_urls, link_titles_map) ==
    LET all == Range(all_page_urls) \cup DOMAIN link_titles_map
    IN  { CHOOSE v \in all : NormalForm(v) = NormalForm(u) : u \in all }

\* set(all_page_urls + list(link_titles_map.keys()))
MergedUrlSet(all_page_urls, link_titles_map) ==
    Range(all_page_urls) \cup DOMAIN link_titles_map

\* "Add the link text as ai_title for documents": one document
AddLinkTitle(doc, link_titles_map) ==
    IF doc.url \in DOMAIN link_titles_map
    THEN [url |-> doc.url, title |-> doc.title,
          file_extension |-> doc.file_extension, type |-> doc.type,
          ai_title |-> link_titles_map[doc.url],
          ai_description |-> <<"A","D","N","I"," ","D","o","c","u","m","e","n","t",":"," ">> \o link_titles_map[doc.url],
          enhanced |-> TRUE]
    ELSE doc

IsEnhanced(doc) == "enhanced" \in DOMAIN doc /\ doc.enhanced

\* organized_data as main saves it, for one order of the merged URLs
CrawlerOutput(urls, link_titles_map) ==
    Bind(filter_and_categorize_links(urls), LAMBDA data :
    Bind([i \in 1..Len(data.documents) |->
              AddLinkTitle(data.documents[i], link_titles_map)], LAMBDA docs :
        [metadata |-> [total_links |-> data.metadata.total_links,
                       documents_count |-> data.metadata.documents_count,
                       pages_count |-> data.metadata.pages_count,
                       publications_filtered |-> data.metadata.publications_filtered,
                       source |-> data.metadata.source,
                       enhanced_from_website |-> TRUE,
                       enhanced_count |->
                           Cardinality({i \in 1..Len(docs) : IsEnhanced(docs[i])})],
         documents |-> IF Len(docs) = 0 THEN <<>> ELSE docs,
         pages |-> data.pages]))

(***************************************************************************)
(* crawlers/adni_curate.py: main                                           *)
(***************************************************************************)
IndexOfCategory(organized, category) ==
    IF \E i \in 1..Len(organized) : organized[i].category = category
    THEN CHOOSE i \in 1..Len(organized) : organized[i].category = category
    ELSE 0

IndexOfSubcat(subcats, subcat) ==
    IF \E j \in 1..Len(subcats) : subcats[j].subcat = subcat
    THEN CHOOSE j \in 1..Len(subcats) : subcats[j].subcat = subcat
    ELSE 0

\* if subcat not in organized[category]: organized[category][subcat] = []
\* organized[category][subcat].append(doc)
AppendToSubcat(subcats, subcat, doc) ==
    Bind(IndexOfSubcat(subcats, subcat), LAMBDA j :
        IF j = 0
        THEN Append(subcats, [subcat |-> subcat, documents |-> <<doc>>])
        ELSE [subcats EXCEPT ![j].documents = Append(@, doc)])

\* if category not in organized: organized[category] = {}, then the append;
\* a dict keeps its keys in the order they were first set
FileDocument(organized, category, subcat, doc) ==
    Bind(IndexOfCategory(organized, category), LAMBDA i :
        IF i = 0
        THEN Append(organized,
                    [category |-> category,
                     subcats |-> AppendToSubcat(<<>>, subcat, doc)])
        ELSE [organized EXCEPT ![i].subcats = AppendToSubcat(@, subcat, doc)])

\* the mutant of CurateLoop: the skip branch without its "continue", so a
\* skipped document is filed as well
RECURSIVE CurateLoopNoContinue(_, _, _, _, _)
CurateLoopNoContinue(documents, i, organized, skipped, uncategorized) ==
    IF i > Len(documents)
    THEN [status |-> "done", processed |-> Len(documents), organized |-> organized,
          skipped |-> skipped, uncategorized |-> uncategorized]
    ELSE IF "ai_title" \notin DOMAIN documents[i]
    THEN [status |-> "KeyError", processed |-> i - 1, organized |-> organized,
          skipped |-> skipped, uncategorized |-> uncategorized]
    ELSE Bind(documents[i], LAMBDA doc :
         Bind(categorize_document(doc.ai_title, doc.url), LAMBDA pair :
            CurateLoopNoContinue(documents, i + 1,
                FileDocument(organized, pair[1], pair[2], doc),
                IF pair[1] = None THEN Append(skipped, doc) ELSE skipped,
                IF pair[1] = <<"O","t","h","e","r">> /\ pair[2] = <<"U","n","c","a","t","e","g","o","r","i","z","e","d">>
                THEN Append(uncategorized, doc)
                ELSE uncategorized)))

\* the loop over documents; doc['ai_title'] raises KeyError on a document
\* that has no such key, and the run ends there
RECURSIVE CurateLoop(_, _, _, _, _)
CurateLoop(documents, i, organized, skipped, uncategorized) ==
    IF i > Len(documents)
    THEN [status |-> "done", processed |-> Len(documents), organized |-> organized,
          skipped |-> skipped, uncategorized |-> uncategorized]
    ELSE IF "ai_title" \notin DOMAIN documents[i]
    THEN [status |-> "KeyError", processed |-> i - 1, organized |-> organized,
          skipped |-> skipped, uncategorized |-> uncategorized]
    ELSE Bind(documents[i], LAMBDA doc :
         Bind(categorize_document(doc.ai_title, doc.url), LAMBDA pair :
            IF pair[1] = None
            THEN CurateLoop(documents, i + 1, organized, Append(skipped, doc),
                            uncategorized)
            ELSE CurateLoop(documents, i + 1,
                            FileDocument(organized, pair[1], pair[2], doc),
                            skipped,
                            IF pair[1] = <<"O","t","h","e","r">> /\ pair[2] = <<"U","n","c","a","t","e","g","o","r","i","z","e","d">>
                            THEN Append(uncategorized, doc)
                            ELSE uncategorized)))

RECURSIVE SumLens(_, _)
SumLens(subcats, j) ==
    IF j > Len(subcats) THEN 0
    ELSE Len(subcats[j].documents) + SumLens(subcats, j + 1)

\* total_organized
RECURSIVE TotalOrganized(_, _)
TotalOrganized(organized, i) ==
    IF i > Len(organized) THEN 0
    ELSE SumLens(organized[i].subcats, 1) + TotalOrganized(organized, i + 1)

\* curated_data
CuratedData(documents, run) ==
    [metadata |-> [total_documents |-> Len(documents),
                   organized_documents |-> TotalOrganized(run.organized, 1),
                   skipped_documents |-> Len(run.skipped),
                   uncategorized_documents |-> Len(run.uncategorized),
                   source |-> "ADNI website structure",
                   structure_version |-> "documentation_page_v1"],
     documents_by_category |-> run.organized,
     uncategorized |-> [documents |-> run.uncategorized,
                        count |-> Len(run.uncategorized)],
     skipped |-> [documents |-> run.skipped, count |-> Len(run.skipped),
                  reason |-> "Meeting notes and other non-document content"]]

(***************************************************************************)
(* mcp_server/server.py: search_catalog and list_categories                *)
(***************************************************************************)
MaxResults == 20

SearchableExtensions == << <<"p","d","f">>, <<"d","o","c","x">>, <<"d","o","c">> >>

\* isinstance(doc, dict): any other JSON value is a record with this field
IsDict(doc) == "json_value" \notin DOMAIN doc

\* doc.get(key, "") for the string fields of a document
GetTitle(doc) == IF "title" \in DOMAIN doc THEN doc.title ELSE <<>>
GetAiTitle(doc) == IF "ai_title" \in DOMAIN doc THEN doc.ai_title ELSE <<>>
GetAiDescription(doc) ==
    IF "ai_description" \in DOMAIN doc THEN doc.ai_description ELSE <<>>
GetUrl(doc) == IF "url" \in DOMAIN doc THEN doc.url ELSE <<>>
\* doc.get("file_extension"): None when the key is missing
GetFileExtension(doc) ==
    IF "file_extension" \in DOMAIN doc THEN doc.file_extension ELSE None

\* str.split() with no argument: the runs of non-blank characters
RECURSIVE SplitWhitespaceFrom(_, _, _)
SplitWhitespaceFrom(s, i, word) ==
    IF i > Len(s) THEN (IF word = <<>> THEN <<>> ELSE <<word>>)
    ELSE IF s[i] = " "
         THEN (IF word = <<>> THEN <<>> ELSE <<word>>)
              \o SplitWhitespaceFrom(s, i + 1, <<>>)
         ELSE SplitWhitespaceFrom(s, i + 1, Append(word, s[i]))

SplitWhitespace(s) == Bind(s, LAMBDA x : SplitWhitespaceFrom(x, 1, <<>>))

\* " ".join([...]).lower()
Searchable(doc, category, subcategory) ==
    Lower(JoinWords(<<GetTitle(doc), GetAiTitle(doc), GetAiDescription(doc),
                      category, subcategory>>))

\* all(term in searchable for term in query_terms)
AllTermsMatch(searchable, query_terms) ==
    \E text \in {searchable} :
        \A k \in 1..Len(query_terms) : Contains(text, query_terms[k])

\* doc.get("file_extension") in ["pdf", "docx", "doc"]
IsSearchableType(doc) ==
    \E k \in 1..Len(SearchableExtensions) :
        GetFileExtension(doc) = SearchableExtensions[k]

\* the dict appended to matches
MatchEntry(doc, category, subcategory) ==
    [title |-> IF GetAiTitle(doc) # <<>> THEN GetAiTitle(doc) ELSE GetTitle(doc),
     description |-> GetAiDescription(doc),
     url |-> GetUrl(doc),
     category |-> category,
     subcategory |-> subcategory,
     file_type |-> IF "file_extension" \in DOMAIN doc THEN doc.file_extension ELSE <<>>]

\* the mutant of IsMatch: the type test left out
IsMatchAnyType(doc, category, subcategory, query_terms) ==
    /\ IsDict(doc)
    /\ AllTermsMatch(Searchable(doc, category, subcategory), query_terms)

\* whether search_documents appends the document
IsMatch(doc, category, subcategory, query_terms) ==
    /\ IsDict(doc)
    /\ AllTermsMatch(Searchable(doc, category, subcategory), query_terms)
    /\ IsSearchableType(doc)

\* search_documents(docs, category, subcategory): matches, extended
RECURSIVE search_documents(_, _, _, _, _, _)
search_documents(docs, i, category, subcategory, query_terms, matches) ==
    IF i > Len(docs) THEN matches
    ELSE search_documents(docs, i + 1, category, subcategory, query_terms,
             IF IsMatch(docs[i], category, subcategory, query_terms)
             THEN Append(matches, MatchEntry(docs[i], category, subcategory))
             ELSE matches)

\* for subcat, docs in subcats.items(): if isinstance(docs, list)
RECURSIVE SearchSubcats(_, _, _, _, _)
SearchSubcats(subcats, j, category, query_terms, matches) ==
    IF j > Len(subcats) THEN matches
    ELSE SearchSubcats(subcats, j + 1, category, query_terms,
             IF "documents" \in DOMAIN subcats[j]
             THEN search_documents(subcats[j].documents, 1, category,
                                   subcats[j].subcat, query_terms, matches)
             ELSE matches)

\* for category, subcats in catalog.get("documents_by_category", {}).items():
\* a dict of subcategories, a plain list of documents, or anything else
RECURSIVE SearchCategories(_, _, _, _)
SearchCategories(by_category, i, query_terms, matches) ==
    IF i > Len(by_category) THEN matches
    ELSE SearchCategories(by_category, i + 1, query_terms,
             IF "subcats" \in DOMAIN by_category[i]
             THEN SearchSubcats(by_category[i].subcats, 1,
                                by_category[i].category, query_terms, matches)
             ELSE IF "documents" \in DOMAIN by_category[i]
             THEN search_documents(by_category[i].documents, 1,
                                   by_category[i].category, <<>>, query_terms,
                                   matches)
             ELSE matches)

\* catalog.get("documents_by_category", {})
DocumentsByCategory(cat) ==
    IF "documents_by_category" \in DOMAIN cat THEN cat.documents_by_category ELSE <<>>

\* catalog.get("uncategorized", {}).get("documents", [])
UncategorizedDocuments(cat) ==
    IF "uncategorized" \in DOMAIN cat /\ "documents" \in DOMAIN cat.uncategorized
    THEN cat.uncategorized.documents
    ELSE <<>>

\* matches before "Limit results"
AllMatches(cat, query) ==
    Bind(SplitWhitespace(Lower(query)), LAMBDA query_terms :
    Bind(SearchCategories(DocumentsByCategory(cat), 1, query_terms, <<>>),
         LAMBDA categorized_matches :
        search_documents(UncategorizedDocuments(cat), 1, <<"U","n","c","a","t","e","g","o","r","i","z","e","d">>, <<>>,
                         query_terms, categorized_matches)))

\* the mutant of LimitResults: the cut applied from 20 matches on, one entry
\* short
LimitResultsOffByOne(matches) ==
    IF Len(matches) >= MaxResults
    THEN <<SubSeq(matches, 1, MaxResults - 1), TRUE>>
    ELSE <<matches, FALSE>>

\* "Limit results": (matches, truncated)
LimitResults(matches) ==
    IF Len(matches) > MaxResults
    THEN <<SubSeq(matches, 1, MaxResults), TRUE>>
    ELSE <<matches, FALSE>>

\* the mutant of search_catalog: total_matches is counted before the cap
search_catalog_counts_all(cat, query) ==
    Bind(AllMatches(cat, query), LAMBDA matches :
        [query |-> query,
         total_matches |-> Len(matches),
         truncated |-> LimitResults(matches)[2],
         documents |-> LimitResults(matches)[1],
         hint |-> "Use fetch_pdf with a document URL to retrieve full content"])

\* search_catalog(query), on the catalog file's content
search_catalog(cat, query) ==
    Bind(LimitResults(AllMatches(cat, query)), LAMBDA limited :
        [query |-> query,
         total_matches |-> Len(limited[1]),
         truncated |-> limited[2],
         documents |-> limited[1],
         hint |-> "Use fetch_pdf with a document URL to retrieve full content"])

\* list_categories: one entry of categories
CategoryInfo(entry) ==
    IF "subcats" \in DOMAIN entry
    THEN [category |-> entry.category,
          document_count |->
              SumLens(SelectSeq(entry.subcats,
                                LAMBDA s : "documents" \in DOMAIN s), 1),
          subcategories |-> [j \in 1..Len(entry.subcats) |-> entry.subcats[j].subcat]]
    ELSE IF "documents" \in DOMAIN entry
    THEN [category |-> entry.category, document_count |-> Len(entry.documents),
          subcategories |-> <<>>]
    ELSE [category |-> entry.category, document_count |-> 0, subcategories |-> <<>>]

list_categories(cat) ==
    Bind(DocumentsByCategory(cat), LAMBDA by_category :
        [total_categories |-> Len(by_category),
         categories |-> [i \in 1..Len(by_category) |-> CategoryInfo(by_category[i])],
         hint |-> "Use search_catalog to find specific documents within a category"])

(***************************************************************************)
(* mcp_server/server.py: fetch_pdf                                         *)
(*                                                                         *)
(* Extracted text is kept as the sequence of the strings the code puts     *)
(* together, each with the number of its characters that are present, so   *)
(* that joining, len() and slicing are computed on lengths.                *)
(***************************************************************************)
MaxPages == 20
MaxContentChars == 50000

\* the URLs clients ask for: one the catalogs list, one they do not
ListedUrl == Site \o <<"/","w","p","-","c","o","n","t","e","n","t","/","u","p","l","o","a","d","s","/","A","D","N","I","_","M","R","I",".","p","d","f">>
UnlistedUrl == Site \o <<"/","d","o","c","s","/","U","n","l","i","s","t","e","d",".","p","d","f">>
FetchUrls == {ListedUrl, UnlistedUrl}

\* hashlib.md5(url.encode()).hexdigest()
url_hash(url) ==
    CASE url = ListedUrl -> "86b59c14df4bee874bff034c917ae504"
      [] url = UnlistedUrl -> "ec9471547d11a39509dbb62dd41e56cb"

\* the names the cache directory may hold a file under (without ".txt")
CacheKeys == {url_hash(u) : u \in FetchUrls}

\* cache_file.exists() is false
NoEntry == [exists |-> FALSE]

\* len(str(n))
RECURSIVE Digits(_)
Digits(n) == IF n < 10 THEN 1 ELSE 1 + Digits(n \div 10)

\* f"[Page {page_num + 1}]\n{text}": the marker, then the page's text
PageBlock(pdf, n) ==
    << [part |-> "page marker", pdf |-> "", page |-> n, total |-> 0,
        chars |-> 8 + Digits(n)],
       [part |-> "page text", pdf |-> pdf.id, page |-> n, total |-> 0,
        chars |-> pdf.pages[n].chars] >>

\* "\n\n"
Separator ==
    [part |-> "separator", pdf |-> "", page |-> 0, total |-> 0, chars |-> 2]

\* f"\n\n[... Showing first {max_pages} of {len(reader.pages)} pages ...]"
PagesNotice(max_pages, total) ==
    [part |-> "pages notice", pdf |-> "", page |-> max_pages, total |-> total,
     chars |-> 36 + Digits(max_pages) + Digits(total)]

\* f"\n\n[... Content truncated. Full document has {len(...)} characters ...]"
ContentNotice(total) ==
    [part |-> "content notice", pdf |-> "", page |-> 0, total |-> total,
     chars |-> 60 + Digits(total)]

\* len(text)
RECURSIVE StrLen(_)
StrLen(text) == IF text = <<>> THEN 0 ELSE Head(text).chars + StrLen(Tail(text))

\* text[:limit]
RECURSIVE Slice(_, _)
Slice(text, limit) ==
    IF text = <<>> \/ limit = 0 THEN <<>>
    ELSE IF Head(text).chars <= limit
         THEN <<Head(text)>> \o Slice(Tail(text), limit - Head(text).chars)
         ELSE << [Head(text) EXCEPT !.chars = limit] >>

\* the mutant of ExtractPages: the loop runs over every page of the PDF
RECURSIVE ExtractPagesNoLimit(_, _, _)
ExtractPagesNoLimit(pdf, page_num, max_pages) ==
    IF page_num > Len(pdf.pages) THEN <<>>
    ELSE (IF pdf.pages[page_num].blank THEN <<>> ELSE <<PageBlock(pdf, page_num)>>)
         \o ExtractPagesNoLimit(pdf, page_num + 1, max_pages)

\* the loop over range(max_pages): text_content; a page whose text is empty
\* after strip() adds nothing
RECURSIVE ExtractPages(_, _, _)
ExtractPages(pdf, page_num, max_pages) ==
    IF page_num > max_pages THEN <<>>
    ELSE (IF pdf.pages[page_num].blank THEN <<>> ELSE <<PageBlock(pdf, page_num)>>)
         \o ExtractPages(pdf, page_num + 1, max_pages)

\* "\n\n".join(text_content)
RECURSIVE JoinBlocks(_)
JoinBlocks(text_content) ==
    IF text_content = <<>> THEN <<>>
    ELSE IF Len(text_content) = 1 THEN text_content[1]
    ELSE text_content[1] \o <<Separator>> \o JoinBlocks(Tail(text_content))

Min(a, b) == IF a <= b THEN a ELSE b

\* full_text for a parsed PDF
FullText(pdf) ==
    Bind(Min(MaxPages, Len(pdf.pages)), LAMBDA max_pages :
        JoinBlocks(ExtractPages(pdf, 1, max_pages))
        \o (IF Len(pdf.pages) > max_pages
            THEN <<PagesNotice(max_pages, Len(pdf.pages))>>
            ELSE <<>>))

\* the mutant of ContentPreview: the notice reports the length of the
\* preview
ContentPreviewCountsPreview(text) ==
    IF StrLen(text) > MaxContentChars
    THEN Slice(text, MaxContentChars) \o <<ContentNotice(MaxContentChars)>>
    ELSE Slice(text, MaxContentChars)

\* content_preview, on both paths
ContentPreview(text) ==
    IF StrLen(text) > MaxContentChars
    THEN Slice(text, MaxContentChars) \o <<ContentNotice(StrLen(text))>>
    ELSE Slice(text, MaxContentChars)

\* doc_info is None
NoDocInfo == [json_value |-> "null"]

\* catalog.get("documents", [])
TopLevelDocuments(cat) == IF "documents" \in DOMAIN cat THEN cat.documents ELSE <<>>

\* "Find document metadata from catalog": the first match, else None
RECURSIVE FindDocInfo(_, _, _)
FindDocInfo(docs, i, url) ==
    IF i > Len(docs) THEN NoDocInfo
    ELSE IF "url" \in DOMAIN docs[i] /\ docs[i].url = url THEN docs[i]
    ELSE FindDocInfo(docs, i + 1, url)

\* doc_info.get("ai_title", "") if doc_info else ""
ResultTitle(doc_info) == IF doc_info # NoDocInfo THEN GetAiTitle(doc_info) ELSE <<>>

\* f"Source: {doc_info.get('ai_title', url)} - {url}" if doc_info else
\* f"Source: {url}"
ResultCitation(doc_info, url) ==
    IF doc_info # NoDocInfo
    THEN <<"S","o","u","r","c","e",":"," ">>
         \o (IF "ai_title" \in DOMAIN doc_info THEN doc_info.ai_title ELSE url)
         \o <<" ","-"," ">> \o url
    ELSE <<"S","o","u","r","c","e",":"," ">> \o url

\* the except branch: the payload, for the exception that was raised
ErrorResult(url, exception) ==
    [error |-> <<"Failed to fetch PDF: ", exception>>,
     url |-> url]

\* the exceptions the download and the extraction raise
DownloadExceptions ==
    {"requests.ConnectionError", "requests.Timeout", "requests.HTTPError",
     "PdfReadError", "extract_text error"}

\* what opening and writing the cache file may do
WriteOutcomes == {"written", "open raises OSError", "write raises UnicodeEncodeError"}

\* the branch taken when the cache file exists
CachedResult(url, doc_info, entry) ==
    [result |-> [title |-> ResultTitle(doc_info),
                 url |-> url,
                 cached |-> TRUE,
                 content |-> ContentPreview(entry.text),
                 citation |-> ResultCitation(doc_info, url)],
     entry |-> entry,
     requests |-> 0]

\* the try block: download, extract, write the cache file, build the result
DownloadResult(url, doc_info, entry, remote) ==
    IF remote.kind = "raises"
    THEN [result |-> ErrorResult(url, remote.exception), entry |-> entry,
          requests |-> 1]
    ELSE Bind(FullText(remote.pdf), LAMBDA full_text :
        IF remote.write = "open raises OSError"
        THEN [result |-> ErrorResult(url, "OSError"), entry |-> entry,
              requests |-> 1]
        ELSE IF remote.write = "write raises UnicodeEncodeError"
        THEN [result |-> ErrorResult(url, "UnicodeEncodeError"),
              entry |-> [exists |-> TRUE, text |-> <<>>],
              requests |-> 1]
        ELSE [result |-> [title |-> ResultTitle(doc_info),
                          url |-> url,
                          cached |-> FALSE,
                          pages |-> Len(remote.pdf.pages),
                          pages_extracted |-> Min(MaxPages, Len(remote.pdf.pages)),
                          content |-> ContentPreview(full_text),
                          citation |-> ResultCitation(doc_info, url)],
              entry |-> [exists |-> TRUE, text |-> full_text],
              requests |-> 1])

\* the mutant of fetch_pdf_content: the cache is never consulted
fetch_pdf_content_no_cache_check(url, cat, entry, remote) ==
    DownloadResult(url, FindDocInfo(TopLevelDocuments(cat), 1, url), entry, remote)

\* the mutant of fetch_pdf_content: the cache file is opened for writing
\* before the download, so a failed download leaves an empty file
fetch_pdf_content_open_first(url, cat, entry, remote) ==
    Bind(FindDocInfo(TopLevelDocuments(cat), 1, url), LAMBDA doc_info :
        IF entry.exists THEN CachedResult(url, doc_info, entry)
        ELSE IF remote.kind = "raises"
        THEN [result |-> ErrorResult(url, remote.exception),
              entry |-> [exists |-> TRUE, text |-> <<>>],
              requests |-> 1]
        ELSE DownloadResult(url, doc_info, entry, remote))

\* fetch_pdf_content(url, catalog): the result, the cache entry of the URL
\* afterwards and the number of requests.get calls, given the entry before
\* and what the origin and the file system do
fetch_pdf_content(url, cat, entry, remote) ==
    Bind(FindDocInfo(TopLevelDocuments(cat), 1, url), LAMBDA doc_info :
        IF entry.exists THEN CachedResult(url, doc_info, entry)
        ELSE DownloadResult(url, doc_info, entry, remote))

(***************************************************************************)
(* What the discovery and scrape services return                           *)
(***************************************************************************)
PageUrl == Site \o <<"/","a","b","o","u","t">>
\* a document the site map lists and content pages may link to
DocA == Site \o <<"/","m","e","e","t","i","n","g","n","o","t","e","s","/","A","D","N","I","_","M","R","I",".","p","d","f">>
\* a document only the site map lists
DocB == Site \o <<"/","d","o","c","s","/","A","D","N","I","_","P","E","T",".","p","d","f">>
\* a document only content pages link to
DocC == Site \o <<"/","w","p","-","c","o","n","t","e","n","t","/","u","p","l","o","a","d","s","/","F","o","r","m",".","d","o","c","x">>

SiteLinkPool == {PageUrl, DocA, DocB}

MaxSiteLinks == 2

\* crawl_entire_site(): [] on failure, else the URLs of the map response
SiteLinkLists == SeqsUpTo(SiteLinkPool, MaxSiteLinks)

\* the anchor texts a content page may give each linked document
LinkTitles ==
    [a |-> { <<"A","D","N","I"," ","M","R","I"," ","O","v","e","r","v","i","e","w">>, <<"S","i","t","e"," ","V","i","s","i","t"," ","M","e","e","t","i","n","g"," ","N","o","t","e","s"," ","2","0","2","0">> },
     c |-> { <<"R","a","n","d","o","m"," ","U","n","r","e","l","a","t","e","d"," ","F","o","r","m">>, <<"P","E","T"," ","c","o","n","s","e","n","t">> }]

\* scrape_pages_for_documents(): a dict from document URL to link text
LinkTitleMaps ==
    { [u \in {} |-> <<>>] }
    \cup { [u \in {DocA} |-> ta] : ta \in LinkTitles.a }
    \cup { [u \in {DocC} |-> tc] : tc \in LinkTitles.c }
    \cup { [u \in {DocA, DocC} |-> IF u = DocA THEN ta ELSE tc] :
             ta \in LinkTitles.a, tc \in LinkTitles.c }

(***************************************************************************)
(* What the origin serves, and the catalog files the server may find       *)
(***************************************************************************)
ShortPageChars == 120
LongPageChars == 3000
ExtraPages == 1

ShortPage == [chars |-> ShortPageChars, blank |-> FALSE]
LongPage == [chars |-> LongPageChars, blank |-> FALSE]
\* a page whose extract_text() is white space only
BlankPage == [chars |-> 3, blank |-> TRUE]

\* the PDFs an origin may answer with: one page, a blank page before a page
\* of text, more pages than are extracted and more text than is returned
\* (with and without a blank page among them),
\* and no page at all
Pdfs ==
    { [id |-> "one page", pages |-> <<ShortPage>>],
      [id |-> "blank first", pages |-> <<BlankPage, ShortPage>>],
      [id |-> "long", pages |-> [n \in 1..(MaxPages + ExtraPages) |-> LongPage]],
      [id |-> "long, blank inside",
       pages |-> [n \in 1..(MaxPages + ExtraPages) |->
                     IF n = 2 THEN BlankPage ELSE LongPage]],
      [id |-> "no pages", pages |-> <<>>] }

\* what one download attempt meets: an exception on the way to the text, or
\* a PDF and then the outcome of writing the cache file
Remotes ==
    { [kind |-> "raises", exception |-> e] : e \in DownloadExceptions }
    \cup { [kind |-> "pdf", pdf |-> pdf, write |-> w] : pdf \in Pdfs, w \in WriteOutcomes }

\* the documents of a crawl that found the listed PDF and a form
ServerRawData ==
    CrawlerOutput(<<ListedUrl, DocC, PageUrl>>,
                  [u \in {ListedUrl, DocC} |->
                      IF u = ListedUrl THEN <<"A","D","N","I"," ","M","R","I"," ","O","v","e","r","v","i","e","w">>
                      ELSE <<"R","a","n","d","o","m"," ","U","n","r","e","l","a","t","e","d"," ","F","o","r","m">>])

\* the curated file adni_curate.py writes, put in place as results/adni.json
CuratedCatalog ==
    CuratedData(ServerRawData.documents,
                CurateLoop(ServerRawData.documents, 1, <<>>, <<>>, <<>>))

\* the crawler's output put in place of the catalog: documents at top level
RawCatalog == ServerRawData

ServerCatalogs == {CuratedCatalog, RawCatalog}

DigitChar == <<"0", "1", "2", "3", "4", "5", "6", "7", "8", "9">>

\* str(n)
RECURSIVE DigitChars(_)
DigitChars(n) ==
    IF n < 10 THEN <<DigitChar[n + 1]>>
    ELSE DigitChars(n \div 10) \o <<DigitChar[(n % 10) + 1]>>

\* the kinds of document a crawl finds: folder, file name, extension and
\* link text
DocKinds ==
    [mri |-> [folder |-> <<"/","w","p","-","c","o","n","t","e","n","t","/","u","p","l","o","a","d","s","/">>, name |-> <<"A","D","N","I","_","M","R","I","_">>,
              ext |-> <<".","p","d","f">>, link |-> <<"A","D","N","I"," ","M","R","I"," ","O","v","e","r","v","i","e","w">>],
     png |-> [folder |-> <<"/","w","p","-","c","o","n","t","e","n","t","/","u","p","l","o","a","d","s","/">>, name |-> <<"A","D","N","I","_","M","R","I","_">>,
              ext |-> <<".","p","n","g">>, link |-> <<"A","D","N","I"," ","M","R","I"," ","O","v","e","r","v","i","e","w">>],
     form |-> [folder |-> <<"/","w","p","-","c","o","n","t","e","n","t","/","u","p","l","o","a","d","s","/">>, name |-> <<"F","o","r","m","_">>,
               ext |-> <<".","d","o","c","x">>, link |-> <<"R","a","n","d","o","m"," ","U","n","r","e","l","a","t","e","d"," ","F","o","r","m">>],
     pet |-> [folder |-> <<"/","w","p","-","c","o","n","t","e","n","t","/","u","p","l","o","a","d","s","/">>, name |-> <<"P","E","T","%","2","0","c","o","n","s","e","n","t","_">>,
              ext |-> <<".","D","O","C">>, link |-> <<"P","E","T"," ","c","o","n","s","e","n","t">>],
     notes |-> [folder |-> <<"/","m","e","e","t","i","n","g","n","o","t","e","s","/">>, name |-> <<"N","o","t","e","s","_">>,
                ext |-> <<".","p","d","f">>, link |-> <<"S","i","t","e"," ","V","i","s","i","t"," ","M","e","e","t","i","n","g"," ","N","o","t","e","s"," ","2","0","2","0">>]]

\* the i-th document of a crawl, of the given kind, as adni.py saves it
KindDoc(kind, i) ==
    Bind(Site \o DocKinds[kind].folder \o DocKinds[kind].name \o DigitChars(i)
         \o DocKinds[kind].ext, LAMBDA url :
        AddLinkTitle(DocumentRecord(url), [u \in {url} |-> DocKinds[kind].link]))

\* the kinds of the documents of a crawl, repeated in this order
CatalogPatterns ==
    { <<"mri">>, <<"mri", "png">>, <<"form">>, <<"pet", "mri">>,
      <<"notes", "mri", "form">>, <<"form", "mri">> }

ExtraMatches == 2

\* how many documents a crawl finds: few, or about as many as are returned
CatalogSizes == {0, 1, 2} \cup ((MaxResults - 1)..(MaxResults + ExtraMatches))

PatternDocs(pattern, n) ==
    [i \in 1..n |-> KindDoc(pattern[((i - 1) % Len(pattern)) + 1], i)]

ChunkLen == 6

\* the loop of adni_curate.py over a long list, run on one stretch of the
\* list after the other, each stretch starting from what the one before
\* left in organized, skipped and uncategorized
RECURSIVE CurateInChunks(_, _)
CurateInChunks(documents, run) ==
    IF documents = <<>> \/ run.status # "done" THEN run
    ELSE Bind(CurateLoop(SubSeq(documents, 1, Min(ChunkLen, Len(documents))), 1,
                         run.organized, run.skipped, run.uncategorized),
              LAMBDA next :
                  CurateInChunks(SubSeq(documents, ChunkLen + 1, Len(documents)), next))

CuratedCatalogOf(documents) ==
    CuratedData(documents,
                CurateInChunks(documents,
                               [status |-> "done", processed |-> 0,
                                organized |-> <<>>, skipped |-> <<>>,
                                uncategorized |-> <<>>]))

\* a catalog edited by hand: a category that is a plain list, a category and
\* a subcategory that are neither dict nor list, entries that are not dicts,
\* entries without ai_title, title or file_extension, and no uncategorized
\* bucket
LegacyCatalog ==
    [documents_by_category |-> <<
        [category |-> <<"C","o","n","s","e","n","t"," ","F","o","r","m","s">>,
         documents |-> << [url |-> Site \o <<"/","d","o","c","s","/","i","c","f",".","p","d","f">>, title |-> <<"i","c","f">>,
                           file_extension |-> <<"p","d","f">>],
                          [json_value |-> "string"],
                          [url |-> Site \o <<"/","d","o","c","s","/","c","o","n","s","e","n","t">>, title |-> <<"c","o","n","s","e","n","t">>],
                          [url |-> Site \o <<"/","d","o","c","s","/","i","c","f","2",".","d","o","c">>, title |-> <<"I","C","F"," ","v","2">>,
                           ai_title |-> <<>>, file_extension |-> <<"d","o","c">>] >>],
        [category |-> <<"A","r","c","h","i","v","e">>, json_value |-> "number"],
        [category |-> <<"M","R","I"," ","P","r","o","t","o","c","o","l","s">>,
         subcats |-> << [subcat |-> <<"c","o","u","n","t">>, json_value |-> "number"],
                        [subcat |-> <<"G","e","n","e","r","a","l">>,
                         documents |-> << [ai_title |-> <<"M","R","I"," ","C","o","n","s","e","n","t">>,
                                           file_extension |-> <<"d","o","c","x">>] >>] >>] >>]

SearchCatalogs ==
    { CuratedCatalogOf(PatternDocs(pattern, n)) :
          pattern \in CatalogPatterns, n \in CatalogSizes }
    \cup {LegacyCatalog}

\* what clients type
Queries ==
    { <<"m","r","i">>, <<"M","R","I"," "," ","O","v","e","r","v","i","e","w">>, <<>>, <<"a","d","n","i"," ","f","o","r","m">>, <<" ","P","E","T"," ","c","o","n","s","e","n","t"," ">>,
      <<"p","r","o","t","o","c","o","l","s">>, <<"u","n","c","a","t","e","g","o","r","i","z","e","d">>, <<"c","o","n","s","e","n","t"," ","i","c","f">>, <<"x","y","z">> }

(***************************************************************************)
(* Each specification runs one part of the program; the other parts' state *)
(* stays as it is before they run.                                         *)
(***************************************************************************)
CrawlIdle == all_urls = <<>> /\ organized_data = NotRun
\* categorize_document not called yet: no (category, subcat) pair
NotCategorized == <<>>
TaxonomyIdle == doc_title = <<>> /\ doc_url = <<>> /\ categorized = NotCategorized
\* the pipeline has not been run a second time
NoFirstPass == [status |-> "not run"]
PipelineIdle ==
    /\ raw_file = NoFile
    /\ curated_file = NoFile
    /\ crawl_run = [status |-> "not run"]
    /\ curate_run = [status |-> "not run"]
    /\ first_run = NoFirstPass
\* no tool call answered yet
NoResponse == [answered |-> FALSE]
NoCall == [tool |-> "none"]
\* no fetch of the URL yet
NeverFetched ==
    [succeeded |-> FALSE, text |-> <<>>, failed_last |-> FALSE,
     others_since |-> FALSE]
\* no request was made
NothingServed == [kind |-> "none"]
\* the callers that may have a fetch_pdf call in progress at the same time
NumCallers == 2
Callers == 1..NumCallers
\* the caller has no call in progress and has had none
NotCalling == [pc |-> "idle"]
\* tool calls are answered one at a time
OneAtATime == origin = [u \in FetchUrls |-> NothingServed]
ServerStarted ==
    /\ cache = [k \in CacheKeys |-> NoEntry]
    /\ resp = NoResponse
    /\ call = NoCall
    /\ fetched = [u \in FetchUrls |-> NeverFetched]
    /\ callers = [c \in Callers |-> NotCalling]
ServerIdle == catalog = NoFile /\ ServerStarted /\ OneAtATime

(***************************************************************************)
(* SpecTaxonomy: categorize_document applied to a title and a URL          *)
(***************************************************************************)
InitTaxonomy ==
    /\ doc_title \in TitlePool
    /\ doc_url \in DocUrlPool
    /\ categorized = NotCategorized
    /\ CrawlIdle
    /\ PipelineIdle
    /\ ServerIdle

Categorize ==
    /\ categorized = NotCategorized
    /\ categorized' = categorize_document(doc_title, doc_url)
    /\ UNCHANGED <<doc_title, doc_url, crawlVars, pipelineVars, serverVars>>

NextTaxonomy == Categorize

SpecTaxonomy == InitTaxonomy /\ [][NextTaxonomy]_vars

(***************************************************************************)
(* SpecClassify: filter_and_categorize_links applied to a URL list         *)
(***************************************************************************)
InitClassify ==
    /\ all_urls \in UrlLists
    /\ organized_data = NotRun
    /\ TaxonomyIdle
    /\ PipelineIdle
    /\ ServerIdle

FilterAndCategorize ==
    /\ organized_data = NotRun
    /\ organized_data' = filter_and_categorize_links(all_urls)
    /\ UNCHANGED <<all_urls, taxonomyVars, pipelineVars, serverVars>>

NextClassify == FilterAndCategorize

SpecClassify == InitClassify /\ [][NextClassify]_vars

(***************************************************************************)
(* SpecPipeline: one run of adni.py and one run of adni_curate.py, in      *)
(* either order                                                            *)
(***************************************************************************)
InitPipeline == PipelineIdle /\ CrawlIdle /\ TaxonomyIdle /\ ServerIdle

\* adni.py main(): discovery failed, nothing is saved
CrawlerMainAborts ==
    /\ crawl_run.status = "not run"
    /\ crawl_run' = [status |-> "aborted", all_page_urls |-> <<>>]
    /\ UNCHANGED <<raw_file, curated_file, curate_run>>

\* adni.py main(): discovery returned URLs; merge, classify, add titles, save
CrawlerMainSaves ==
    /\ crawl_run.status = "not run"
    /\ \E all_page_urls \in SiteLinkLists \ {<<>>} :
       \E link_titles_map \in LinkTitleMaps :
       \E urls \in Orderings(MergedUrlSet(all_page_urls, link_titles_map)) :
          /\ raw_file' = [exists |-> TRUE,
                          data |-> CrawlerOutput(urls, link_titles_map)]
          /\ crawl_run' = [status |-> "saved", all_page_urls |-> all_page_urls,
                           link_titles_map |-> link_titles_map, all_urls |-> urls]
    /\ UNCHANGED <<curated_file, curate_run>>

\* adni_curate.py main(): data/adni_raw.json does not exist
CurateMainNoInput ==
    /\ curate_run.status = "not run"
    /\ ~raw_file.exists
    /\ curate_run' = [status |-> "file not found"]
    /\ UNCHANGED <<raw_file, curated_file, crawl_run>>

\* adni_curate.py main(): the loop, and the save when the loop ends
CurateMainRuns ==
    /\ curate_run.status = "not run"
    /\ raw_file.exists
    /\ LET run == CurateLoop(raw_file.data.documents, 1, <<>>, <<>>, <<>>) IN
          /\ curate_run' = run
          /\ curated_file' =
                IF run.status = "done"
                THEN [exists |-> TRUE,
                      data |-> CuratedData(raw_file.data.documents, run)]
                ELSE curated_file
    /\ UNCHANGED <<raw_file, crawl_run>>

NextPipeline ==
    \/ (CrawlerMainAborts /\ UNCHANGED <<first_run, crawlVars, taxonomyVars, serverVars>>)
    \/ (CrawlerMainSaves /\ UNCHANGED <<first_run, crawlVars, taxonomyVars, serverVars>>)
    \/ (CurateMainNoInput /\ UNCHANGED <<first_run, crawlVars, taxonomyVars, serverVars>>)
    \/ (CurateMainRuns /\ UNCHANGED <<first_run, crawlVars, taxonomyVars, serverVars>>)

SpecPipeline == InitPipeline /\ [][NextPipeline]_vars

(***************************************************************************)
(* SpecRerun: the pipeline run to its end, then run once more on the same  *)
(* discovery and scrape results                                            *)
(***************************************************************************)
\* the link texts of a scrape that found both documents in one subcategory
SameSubcatTitles ==
    [u \in {DocA, DocC} |->
        IF u = DocA THEN <<"A","D","N","I"," ","M","R","I"," ","O","v","e","r","v","i","e","w">>
        ELSE <<"A","D","N","I"," ","M","R","I"," ","O","v","e","r","v","i","e","w"," ","U","p","d","a","t","e">>]

RerunLinkTitleMaps == LinkTitleMaps \cup {SameSubcatTitles}

\* adni.py main() for discovery and scrape results drawn from the given sets:
\* merge, classify, add titles, save
CrawlerMain(link_lists, title_maps) ==
    /\ crawl_run.status = "not run"
    /\ \E all_page_urls \in link_lists \ {<<>>} :
       \E link_titles_map \in title_maps :
       \E urls \in Orderings(MergedUrlSet(all_page_urls, link_titles_map)) :
          /\ raw_file' = [exists |-> TRUE,
                          data |-> CrawlerOutput(urls, link_titles_map)]
          /\ crawl_run' = [status |-> "saved", all_page_urls |-> all_page_urls,
                           link_titles_map |-> link_titles_map, all_urls |-> urls]
    /\ UNCHANGED <<curated_file, curate_run, first_run>>

\* adni.py main(), first pass, with the scrape results of this specification
CrawlerMainFirstPass ==
    /\ first_run = NoFirstPass
    /\ CrawlerMain(SiteLinkLists, RerunLinkTitleMaps)

\* adni.py main(), second pass: the services return what they returned to
\* the first pass; the files of the first pass are still in place
CrawlerMainSecondPass ==
    /\ crawl_run.status = "saved"
    /\ curate_run.status = "done"
    /\ first_run = NoFirstPass
    /\ \E urls \in Orderings(MergedUrlSet(crawl_run.all_page_urls,
                                          crawl_run.link_titles_map)) :
          /\ raw_file' = [exists |-> TRUE,
                          data |-> CrawlerOutput(urls, crawl_run.link_titles_map)]
          /\ crawl_run' = [crawl_run EXCEPT !.all_urls = urls]
    /\ first_run' = [status |-> "done", all_urls |-> crawl_run.all_urls,
                     raw |-> raw_file.data, catalog |-> curated_file.data]
    /\ curate_run' = [status |-> "not run"]
    /\ UNCHANGED curated_file

NextRerun ==
    \/ (CrawlerMainFirstPass /\ UNCHANGED <<crawlVars, taxonomyVars, serverVars>>)
    \/ (CrawlerMainSecondPass /\ UNCHANGED <<crawlVars, taxonomyVars, serverVars>>)
    \/ (CurateMainRuns /\ UNCHANGED <<first_run, crawlVars, taxonomyVars, serverVars>>)

SpecRerun == InitPipeline /\ [][NextRerun]_vars

(***************************************************************************)
(* The tool calls of mcp_server/server.py                                  *)
(***************************************************************************)
\* a fetch of another URL, a search or a listing has followed the URL's
\* successful fetch
NoteOtherCall(log) == [log EXCEPT !.others_since = log.succeeded]

\* the except branch was taken for a failed download or extraction
IsDownloadFailure(result) ==
    "error" \in DOMAIN result /\ result.error[2] \in DownloadExceptions

\* the try block ran to its return
IsFreshResult(result) == "cached" \in DOMAIN result /\ ~result.cached

\* what the URL's fetches have done, after one more
NoteFetch(log, r) ==
    [succeeded |-> log.succeeded \/ IsFreshResult(r.result),
     text |-> IF ~log.succeeded /\ IsFreshResult(r.result) THEN r.entry.text
              ELSE log.text,
     failed_last |-> IsDownloadFailure(r.result),
     others_since |-> log.others_since]

\* fetch_pdf(url)
FetchPdf(url, remote) ==
    /\ \E r \in {fetch_pdf_content(url, catalog, cache[url_hash(url)], remote)} :
          /\ cache' = [cache EXCEPT ![url_hash(url)] = r.entry]
          /\ resp' = r.result
          /\ call' = [tool |-> "fetch_pdf", url |-> url,
                      requests |-> r.requests,
                      served |-> IF r.requests = 0 THEN NothingServed ELSE remote,
                      after_success |-> fetched[url].succeeded,
                      after_failure |-> fetched[url].failed_last,
                      others_between |-> fetched[url].others_since,
                      entry_before |-> cache[url_hash(url)]]
          /\ fetched' = [u \in FetchUrls |->
                            IF u = url THEN NoteFetch(fetched[u], r)
                            ELSE NoteOtherCall(fetched[u])]
    /\ UNCHANGED <<catalog, origin, callers, crawlVars, taxonomyVars, pipelineVars>>

\* search_catalog(query)
SearchCatalog(query) ==
    /\ resp' = search_catalog(catalog, query)
    /\ call' = [tool |-> "search_catalog", query |-> query]
    /\ fetched' = [u \in FetchUrls |-> NoteOtherCall(fetched[u])]
    /\ UNCHANGED <<catalog, cache, origin, callers, crawlVars, taxonomyVars,
                   pipelineVars>>

\* list_categories()
ListCategories ==
    /\ resp' = list_categories(catalog)
    /\ call' = [tool |-> "list_categories"]
    /\ fetched' = [u \in FetchUrls |-> NoteOtherCall(fetched[u])]
    /\ UNCHANGED <<catalog, cache, origin, callers, crawlVars, taxonomyVars,
                   pipelineVars>>

(***************************************************************************)
(* SpecSearch: one search or listing over a catalog file                   *)
(***************************************************************************)
InitSearch ==
    /\ catalog \in SearchCatalogs
    /\ ServerStarted
    /\ OneAtATime
    /\ CrawlIdle
    /\ TaxonomyIdle
    /\ PipelineIdle

NextSearch ==
    \/ (call = NoCall /\ \E query \in Queries : SearchCatalog(query))
    \/ (call = NoCall /\ ListCategories)

SpecSearch == InitSearch /\ [][NextSearch]_vars

(***************************************************************************)
(* Spec: the server answering tool calls one at a time, in any order       *)
(***************************************************************************)
Init ==
    /\ catalog \in ServerCatalogs
    /\ ServerStarted
    /\ OneAtATime
    /\ CrawlIdle
    /\ TaxonomyIdle
    /\ PipelineIdle

Next ==
    \/ \E url \in FetchUrls :
       \E remote \in Remotes : FetchPdf(url, remote)
    \/ \E query \in Queries : SearchCatalog(query)
    \/ ListCategories

Spec == Init /\ [][Next]_vars

(***************************************************************************)
(* SpecConcurrent: fetch_pdf calls in progress at the same time, in        *)
(* server processes or threads that share data/pdf_cache.  A call advances *)
(* by one file-system or network operation at a time; what it keeps in     *)
(* local variables in between is determined by its position, the URL and   *)
(* what the origin serves.  Every download of a URL meets the same         *)
(* answer, and the cache files can be written.                             *)
(***************************************************************************)
\* what the origin does for a URL, every time it is asked
SteadyRemotes == {r \in Remotes : r.kind = "pdf" => r.write = "written"}

InitConcurrent ==
    /\ catalog \in ServerCatalogs
    /\ ServerStarted
    /\ origin \in [FetchUrls -> SteadyRemotes]
    /\ CrawlIdle
    /\ TaxonomyIdle
    /\ PipelineIdle

\* doc_info of the caller's call
DocInfoOf(c) == FindDocInfo(TopLevelDocuments(catalog), 1, callers[c].url)

\* the caller's call has returned the result
Returned(c, result) ==
    callers' = [callers EXCEPT ![c] = [pc |-> "done", url |-> callers[c].url,
                                       result |-> result]]

\* the caller's call is at the position
At(c, pc) == callers' = [callers EXCEPT ![c] = [pc |-> pc, url |-> callers[c].url]]

\* fetch_pdf(url) up to the test of cache_file.exists()
CheckCache(c, url) ==
    /\ callers[c].pc = "idle"
    /\ callers' = [callers EXCEPT ![c] =
                      [pc |-> IF cache[url_hash(url)].exists THEN "read"
                              ELSE "download",
                       url |-> url]]
    /\ UNCHANGED <<catalog, cache, resp, call, fetched, origin>>

\* the cache branch: the file is read as it is now, and the call returns
ReadCache(c) ==
    /\ callers[c].pc = "read"
    /\ Returned(c, CachedResult(callers[c].url, DocInfoOf(c),
                                cache[url_hash(callers[c].url)]).result)
    /\ UNCHANGED <<catalog, cache, resp, call, fetched, origin>>

\* the try block up to full_text: an exception ends the call in the except
\* branch
Download(c) ==
    /\ callers[c].pc = "download"
    /\ IF origin[callers[c].url].kind = "raises"
       THEN Returned(c, ErrorResult(callers[c].url,
                                    origin[callers[c].url].exception))
       ELSE At(c, "open")
    /\ UNCHANGED <<catalog, cache, resp, call, fetched, origin>>

\* open(cache_file, 'w'): the file is created, or emptied if it exists
OpenCache(c) ==
    /\ callers[c].pc = "open"
    /\ cache' = [cache EXCEPT ![url_hash(callers[c].url)] =
                    [exists |-> TRUE, text |-> <<>>]]
    /\ At(c, "write")
    /\ UNCHANGED <<catalog, resp, call, fetched, origin>>

\* f.write(full_text) and the end of the with block, where the text reaches
\* the file in one piece from its start; then the call returns
WriteCache(c) ==
    /\ callers[c].pc = "write"
    /\ \E r \in {DownloadResult(callers[c].url, DocInfoOf(c),
                                 cache[url_hash(callers[c].url)],
                                 origin[callers[c].url])} :
          /\ cache' = [cache EXCEPT ![url_hash(callers[c].url)] = r.entry]
          /\ Returned(c, r.result)
    /\ UNCHANGED <<catalog, resp, call, fetched, origin>>

NextConcurrent ==
    \/ (\E c \in Callers : \E url \in FetchUrls : CheckCache(c, url)
        /\ UNCHANGED <<crawlVars, taxonomyVars, pipelineVars>>)
    \/ (\E c \in Callers : ReadCache(c)
        /\ UNCHANGED <<crawlVars, taxonomyVars, pipelineVars>>)
    \/ (\E c \in Callers : Download(c)
        /\ UNCHANGED <<crawlVars, taxonomyVars, pipelineVars>>)
    \/ (\E c \in Callers : OpenCache(c)
        /\ UNCHANGED <<crawlVars, taxonomyVars, pipelineVars>>)
    \/ (\E c \in Callers : WriteCache(c)
        /\ UNCHANGED <<crawlVars, taxonomyVars, pipelineVars>>)

SpecConcurrent == InitConcurrent /\ [][NextConcurrent]_vars

(***************************************************************************)
(* Claims about filter_and_categorize_links, under SpecClassify            *)
(***************************************************************************)
Urls(entries) == {entries[i].url : i \in 1..Len(entries)}
Occurrences(s, x) == Cardinality({i \in 1..Len(s) : s[i] = x})
UrlOccurrences(entries, u) == Cardinality({i \in 1..Len(entries) : entries[i].url = u})

\* the claims' reading of the classifier: the final path segment with its
\* query string stripped, and the lowercased text after its last '.'
ClaimSegment(url) == SplitFirst(SplitLast(url, "/"), "?")
ClaimExt(url) == Lower(SplitLast(ClaimSegment(url), "."))
ClaimIsDocument(url) ==
    /\ Contains(ClaimSegment(url), <<".">>)
    /\ ClaimExt(url) \in document_extensions

\* the claims' reading of the exclusion rule
ClaimExcluded(url) ==
    \E k \in 1..Len(PublicationTerms) : Contains(Lower(url), Lower(PublicationTerms[k]))

\* C8 (as claimed): every URL that is not excluded is a Document with the
\* extension of its query-stripped final segment when that extension is a
\* document extension, and a Page otherwise, also when the query string
\* holds a '.'.
C8_ClassifiedByStrippedSegment ==
    organized_data # NotRun =>
        \A i \in 1..Len(all_urls) :
            LET u == all_urls[i] IN
            ~ClaimExcluded(u) =>
                IF ClaimIsDocument(u)
                THEN /\ \E k \in 1..Len(organized_data.documents) :
                            /\ organized_data.documents[k].url = u
                            /\ organized_data.documents[k].file_extension = ClaimExt(u)
                     /\ u \notin Urls(organized_data.pages)
                ELSE /\ u \in Urls(organized_data.pages)
                     /\ u \notin Urls(organized_data.documents)

\* C9: an excluded URL is in neither output whatever its type, every other
\* URL is in exactly one output as often as it was given, and the three
\* counts add up to the length of the input.
C9_ExcludedNeverListed ==
    organized_data # NotRun =>
        /\ \A i \in 1..Len(all_urls) :
              LET u == all_urls[i] IN
              IF ClaimExcluded(u)
              THEN /\ u \notin Urls(organized_data.documents)
                   /\ u \notin Urls(organized_data.pages)
              ELSE /\ (u \in Urls(organized_data.documents))
                          # (u \in Urls(organized_data.pages))
                   /\ UrlOccurrences(organized_data.documents, u)
                        + UrlOccurrences(organized_data.pages, u)
                        = Occurrences(all_urls, u)
        /\ organized_data.metadata.publications_filtered
             = Cardinality({i \in 1..Len(all_urls) : ClaimExcluded(all_urls[i])})
        /\ organized_data.metadata.documents_count = Len(organized_data.documents)
        /\ organized_data.metadata.pages_count = Len(organized_data.pages)
        /\ organized_data.metadata.documents_count
             + organized_data.metadata.pages_count
             + organized_data.metadata.publications_filtered = Len(all_urls)

\* C9 witness: a run over a list holding a dropped .pdf whose exclusion
\* substring is written in upper case, next to a URL that is kept
C9_Witness ==
    /\ organized_data # NotRun
    /\ Len(all_urls) = 2
    /\ all_urls[1] = Site \o <<"/","P","u","b","l","i","c","a","t","i","o","n","s","/","p","a","p","e","r",".","p","d","f">>
    /\ ~ClaimExcluded(all_urls[2])
    /\ organized_data.metadata.publications_filtered = 1
    /\ organized_data.metadata.documents_count = 1

(***************************************************************************)
(* Claims about categorize_document, under SpecTaxonomy                    *)
(***************************************************************************)
RECURSIVE FlattenKeywords(_, _, _)
FlattenKeywords(category, sub, k) ==
    IF k > Len(sub.keywords) THEN <<>>
    ELSE << [category |-> category, subcat |-> sub.subcat, keyword |-> sub.keywords[k]] >>
         \o FlattenKeywords(category, sub, k + 1)

RECURSIVE FlattenSubcategories(_, _)
FlattenSubcategories(cat, j) ==
    IF j > Len(cat.subcategories) THEN <<>>
    ELSE FlattenKeywords(cat.category, cat.subcategories[j], 1)
         \o FlattenSubcategories(cat, j + 1)

RECURSIVE FlattenCategories(_)
FlattenCategories(i) ==
    IF i > Len(ADNI_STRUCTURE) THEN <<>>
    ELSE FlattenSubcategories(ADNI_STRUCTURE[i], 1) \o FlattenCategories(i + 1)

\* the (category, subcategory, keyword) triples in table declaration order
ClaimTriples == FlattenCategories(1)

\* the fallback rules in the claimed order
ClaimFallbacks == <<
    [terms |-> { <<"m","r","i">> }, category |-> <<"M","R","I"," ","P","r","o","t","o","c","o","l","s">>],
    [terms |-> { <<"p","e","t">> }, category |-> <<"P","E","T"," ","P","r","o","t","o","c","o","l","s">>],
    [terms |-> { <<"c","l","i","n","i","c","a","l">>, <<"p","r","o","t","o","c","o","l">> }, category |-> <<"C","l","i","n","i","c","a","l"," ","P","r","o","t","o","c","o","l","s">>],
    [terms |-> { <<"c","o","n","s","e","n","t">>, <<"i","c","f">> }, category |-> <<"C","o","n","s","e","n","t"," ","F","o","r","m","s">>],
    [terms |-> { <<"b","i","o","s","p","e","c","i","m","e","n">>, <<"b","i","o","f","l","u","i","d">>, <<"c","s","f">> },
     category |-> <<"B","i","o","s","p","e","c","i","m","e","n"," ","P","r","o","t","o","c","o","l","s">>],
    [terms |-> { <<"p","o","l","i","c","y">>, <<"p","r","o","c","e","d","u","r","e","s">>, <<"a","g","r","e","e","m","e","n","t">> },
     category |-> <<"P","o","l","i","c","i","e","s"," ","a","n","d"," ","P","r","o","c","e","d","u","r","e","s">>] >>

Least(S) == CHOOSE n \in S : \A m \in S : n <= m

ClaimMeetingSkip(t, u) ==
    /\ Contains(t, <<"m","e","e","t","i","n","g">>) \/ Contains(t, <<"n","o","t","e","s">>)
    /\ Contains(u, <<"m","e","e","t","i","n","g","n","o","t","e","s">>) \/ Contains(u, <<"m","e","e","t","i","n","g","_","n","o","t","e","s">>)

ClaimTripleHits(t) ==
    {n \in 1..Len(ClaimTriples) : Contains(t, Lower(ClaimTriples[n].keyword))}

ClaimFallbackHits(t) ==
    {n \in 1..Len(ClaimFallbacks) : \E term \in ClaimFallbacks[n].terms : Contains(t, term)}

\* what the four rules, applied in order, give for a title and a URL
ClaimCategory(title, url) ==
    Bind(Lower(title), LAMBDA t :
    Bind(Lower(url), LAMBDA u :
    Bind(ClaimTripleHits(t), LAMBDA hits :
    Bind(ClaimFallbackHits(t), LAMBDA fallbacks :
        IF ClaimMeetingSkip(t, u) THEN <<None, None>>
        ELSE IF hits # {}
             THEN <<ClaimTriples[Least(hits)].category, ClaimTriples[Least(hits)].subcat>>
        ELSE IF fallbacks # {}
             THEN <<ClaimFallbacks[Least(fallbacks)].category, <<"O","t","h","e","r">>>>
        ELSE << <<"O","t","h","e","r">>, <<"U","n","c","a","t","e","g","o","r","i","z","e","d">> >>))))

\* C10: categorize_document returns the result of the first rule that
\* matches, in the order meeting-notes skip, keyword table in declaration
\* order, fallback rules in their order, default.
C10_FirstRuleWins ==
    categorized # NotCategorized => categorized = ClaimCategory(doc_title, doc_url)

\* C10 witness: a title that holds a table keyword and a fallback term is
\* skipped, because the meeting-notes rule matches first
C10_Witness ==
    /\ categorized = <<None, None>>
    /\ ClaimTripleHits(Lower(doc_title)) # {}
    /\ ClaimFallbackHits(Lower(doc_title)) # {}

(***************************************************************************)
(* Claims about the curation run, under SpecPipeline                       *)
(***************************************************************************)
RECURSIVE FlatSubcats(_, _, _)
FlatSubcats(category, subcats, j) ==
    IF j > Len(subcats) THEN <<>>
    ELSE [k \in 1..Len(subcats[j].documents) |->
             [category |-> category, subcat |-> subcats[j].subcat,
              doc |-> subcats[j].documents[k]]]
         \o FlatSubcats(category, subcats, j + 1)

\* the entries of documents_by_category in traversal order, each with the
\* (category, subcategory) it is filed under
RECURSIVE FiledEntries(_, _)
FiledEntries(organized, i) ==
    IF i > Len(organized) THEN <<>>
    ELSE FlatSubcats(organized[i].category, organized[i].subcats, 1)
         \o FiledEntries(organized, i + 1)

TimesFiled(organized, doc) ==
    Bind(FiledEntries(organized, 1), LAMBDA filed :
        Cardinality({k \in 1..Len(filed) : filed[k].doc = doc}))

CurateRan == curate_run.status \in {"done", "KeyError"}

\* C6 (as claimed): after a completed run every document is in exactly one
\* of documents_by_category, skipped and uncategorized, and the three
\* counts add up to the number of documents.
C6_ThreeDisjointOutcomes ==
    curate_run.status = "done" =>
        /\ \A i \in 1..Len(raw_file.data.documents) :
              LET doc == raw_file.data.documents[i] IN
              TimesFiled(curate_run.organized, doc)
                + Occurrences(curate_run.skipped, doc)
                + Occurrences(curate_run.uncategorized, doc) = 1
        /\ curated_file.data.metadata.organized_documents
             + curated_file.data.metadata.skipped_documents
             + curated_file.data.metadata.uncategorized_documents
             = curated_file.data.metadata.total_documents

\* C6 (amended): every document the loop has processed is either in skipped
\* or filed once under one (category, subcategory), never both; the
\* uncategorized list is the documents filed under ("Other",
\* "Uncategorized"), which are thus in two collections; a written catalog
\* has organized_documents + skipped_documents = total_documents.
C6_FiledOnceOrSkipped ==
    CurateRan =>
        Bind(FiledEntries(curate_run.organized, 1), LAMBDA filed :
            /\ \A i \in 1..Len(raw_file.data.documents) :
                  LET doc == raw_file.data.documents[i] IN
                  Cardinality({k \in 1..Len(filed) : filed[k].doc = doc})
                    + Occurrences(curate_run.skipped, doc)
                    = IF i <= curate_run.processed THEN 1 ELSE 0
            /\ Len(filed) + Len(curate_run.skipped) = curate_run.processed
            /\ curate_run.uncategorized
                 = SelectSeq([k \in 1..Len(filed) |-> filed[k].doc], LAMBDA d :
                       \E k \in 1..Len(filed) :
                           /\ filed[k].doc = d
                           /\ filed[k].category = <<"O","t","h","e","r">>
                           /\ filed[k].subcat = <<"U","n","c","a","t","e","g","o","r","i","z","e","d">>)
            /\ curate_run.status = "done" =>
                  /\ curate_run.processed = Len(raw_file.data.documents)
                  /\ curated_file.exists
                  /\ curated_file.data.metadata.organized_documents = Len(filed)
                  /\ curated_file.data.metadata.organized_documents
                       + curated_file.data.metadata.skipped_documents
                       = curated_file.data.metadata.total_documents
                  /\ curated_file.data.metadata.uncategorized_documents
                       = Len(curate_run.uncategorized))

\* C6 witness: a completed run that skipped one document and left another
\* uncategorized
C6_Witness ==
    /\ curate_run.status = "done"
    /\ Len(curate_run.skipped) = 1
    /\ Len(curate_run.uncategorized) = 1
    /\ curated_file.data.metadata.total_documents = 2

\* C7 (as claimed): a curation run over the documents the crawler saved
\* completes, writes the catalog and gives every document an outcome, also
\* when some document got no link title; and a crawl whose discovery
\* returned no URL saves nothing.
C7_BatchNeverAborts ==
    /\ CurateRan =>
          /\ curate_run.status = "done"
          /\ curated_file.exists
          /\ \A i \in 1..Len(raw_file.data.documents) :
                LET doc == raw_file.data.documents[i] IN
                TimesFiled(curate_run.organized, doc)
                  + Occurrences(curate_run.skipped, doc) >= 1
    /\ crawl_run.status = "aborted" => ~raw_file.exists /\ ~curated_file.exists

(***************************************************************************)
(* Claims about search_catalog, under SpecSearch                           *)
(***************************************************************************)
RECURSIVE ClaimSubcatEntries(_, _, _)
ClaimSubcatEntries(category, subcats, j) ==
    IF j > Len(subcats) THEN <<>>
    ELSE (IF "documents" \in DOMAIN subcats[j]
          THEN [k \in 1..Len(subcats[j].documents) |->
                   [category |-> category, subcategory |-> subcats[j].subcat,
                    doc |-> subcats[j].documents[k]]]
          ELSE <<>>)
         \o ClaimSubcatEntries(category, subcats, j + 1)

RECURSIVE ClaimCategoryEntries(_, _)
ClaimCategoryEntries(by_category, i) ==
    IF i > Len(by_category) THEN <<>>
    ELSE (IF "subcats" \in DOMAIN by_category[i]
          THEN ClaimSubcatEntries(by_category[i].category, by_category[i].subcats, 1)
          ELSE IF "documents" \in DOMAIN by_category[i]
          THEN [k \in 1..Len(by_category[i].documents) |->
                   [category |-> by_category[i].category, subcategory |-> <<>>,
                    doc |-> by_category[i].documents[k]]]
          ELSE <<>>)
         \o ClaimCategoryEntries(by_category, i + 1)

\* the entries of a catalog in traversal order, each with its labels:
\* categories in catalog order, their subcategories in order, the documents
\* of each in order, then the uncategorized bucket
ClaimTraversal(cat) ==
    SelectSeq(
        ClaimCategoryEntries(DocumentsByCategory(cat), 1)
        \o [k \in 1..Len(UncategorizedDocuments(cat)) |->
               [category |-> <<"U","n","c","a","t","e","g","o","r","i","z","e","d">>, subcategory |-> <<>>,
                doc |-> UncategorizedDocuments(cat)[k]]],
        LAMBDA e : IsDict(e.doc))

\* the whitespace-separated terms of the lowercased query
ClaimTerms(query) ==
    Bind(Lower(query), LAMBDA q :
        { SubSeq(q, ij[1], ij[2]) :
            ij \in { p \in (1..Len(q)) \X (1..Len(q)) :
                       /\ p[1] <= p[2]
                       /\ \A k \in p[1]..p[2] : q[k] # " "
                       /\ p[1] = 1 \/ q[p[1] - 1] = " "
                       /\ p[2] = Len(q) \/ q[p[2] + 1] = " " } })

\* the lowercased fields that make up an entry's searchable text
ClaimFields(e) ==
    { Lower(GetTitle(e.doc)), Lower(GetAiTitle(e.doc)),
      Lower(GetAiDescription(e.doc)), Lower(e.category), Lower(e.subcategory) }

ClaimTextMatches(e, terms) ==
    \E fields \in {ClaimFields(e)} :
        \A term \in terms : \E field \in fields : Contains(field, term)

ClaimEligible(e) ==
    /\ "file_extension" \in DOMAIN e.doc
    /\ e.doc.file_extension \in { <<"p","d","f">>, <<"d","o","c","x">>, <<"d","o","c">> }

\* the eligible entries whose text matches, in traversal order
ClaimMatches(cat, query) ==
    Bind(ClaimTerms(query), LAMBDA terms :
        SelectSeq(ClaimTraversal(cat),
                  LAMBDA e : ClaimEligible(e) /\ ClaimTextMatches(e, terms)))

\* a returned document is the given entry of the catalog
Describes(d, e) ==
    /\ d.url = GetUrl(e.doc)
    /\ d.category = e.category
    /\ d.subcategory = e.subcategory

\* C1: search_catalog returns exactly the entries whose file_extension is
\* pdf, docx or doc and whose searchable text holds every term of the
\* lowercased query, up to the cap of 20; an entry of any other type is
\* never returned.
C1_ReturnsEligibleMatches ==
    call.tool = "search_catalog" =>
        Bind(ClaimMatches(catalog, call.query), LAMBDA m :
            /\ \A k \in 1..Len(resp.documents) :
                  /\ \E j \in 1..Len(m) : Describes(resp.documents[k], m[j])
                  /\ resp.documents[k].file_type \in { <<"p","d","f">>, <<"d","o","c","x">>, <<"d","o","c">> }
            /\ Len(resp.documents) = Min(Len(m), MaxResults)
            /\ Len(m) <= MaxResults =>
                  \A j \in 1..Len(m) :
                      \E k \in 1..Len(resp.documents) : Describes(resp.documents[k], m[j]))

\* C1 witness: a query of two terms in mixed case with a run of blanks has
\* returned entries while a png entry with the same text stayed out
C1_Witness ==
    /\ call.tool = "search_catalog"
    /\ call.query = <<"M","R","I"," "," ","O","v","e","r","v","i","e","w">>
    /\ Len(resp.documents) >= 1
    /\ \E k \in 1..Len(ClaimTraversal(catalog)) :
          LET e == ClaimTraversal(catalog)[k] IN
          /\ ~ClaimEligible(e)
          /\ ClaimTextMatches(e, ClaimTerms(call.query))
          /\ \A d \in 1..Len(resp.documents) : ~Describes(resp.documents[d], e)

\* C2: the returned list has at most 20 entries, truncated is true exactly
\* when more than 20 eligible entries match, and then the list is the first
\* 20 matches in traversal order.
C2_FirstTwentyInTraversalOrder ==
    call.tool = "search_catalog" =>
        Bind(ClaimMatches(catalog, call.query), LAMBDA m :
            /\ Len(resp.documents) <= MaxResults
            /\ resp.truncated <=> (Len(m) > MaxResults)
            /\ resp.truncated =>
                  /\ Len(resp.documents) = MaxResults
                  /\ \A k \in 1..MaxResults : Describes(resp.documents[k], m[k]))

\* C2 witness: a truncated result over a catalog of two categories, whose
\* first 20 matches come from both
C2_Witness ==
    /\ call.tool = "search_catalog"
    /\ resp.truncated
    /\ Len(resp.documents) = MaxResults
    /\ resp.documents[1].category # resp.documents[MaxResults].category

\* C16: in every search_catalog response total_matches is the length of the
\* returned documents list, counted after the cap: it never exceeds 20, and
\* in a truncated response it is less than the number of entries that match
C16_TotalMatchesCountsReturned ==
    call.tool = "search_catalog" =>
        /\ resp.total_matches = Len(resp.documents)
        /\ resp.total_matches <= MaxResults
        /\ resp.truncated =>
              resp.total_matches < Len(ClaimMatches(catalog, call.query))

\* C16 witness: a truncated response that reports 20 matches for a query
\* more than 20 entries match
C16_Witness ==
    /\ call.tool = "search_catalog"
    /\ resp.truncated
    /\ resp.total_matches = MaxResults
    /\ Len(ClaimMatches(catalog, call.query)) > MaxResults

(***************************************************************************)
(* Claims about fetch_pdf, under Spec                                      *)
(***************************************************************************)
IsCachedResult(result) == "cached" \in DOMAIN result /\ result.cached

\* C3: once a fetch of a URL has succeeded, its cache entry stays the text
\* that fetch stored, and every later fetch of the URL, whatever calls came
\* between, returns cached=true, makes no request, leaves the entry as it
\* was and returns the stored text up to the cap of 50,000 characters.
C3_CacheHitAfterSuccess ==
    /\ \A u \in FetchUrls :
          fetched[u].succeeded =>
              cache[url_hash(u)] = [exists |-> TRUE, text |-> fetched[u].text]
    /\ (call.tool = "fetch_pdf" /\ call.after_success) =>
          /\ IsCachedResult(resp)
          /\ call.requests = 0
          /\ cache[url_hash(call.url)] = call.entry_before
          /\ IF StrLen(fetched[call.url].text) <= MaxContentChars
             THEN resp.content = fetched[call.url].text
             ELSE Slice(resp.content, MaxContentChars)
                    = Slice(fetched[call.url].text, MaxContentChars)

\* C3 witness: a fetch answered from the cache after the URL's successful
\* fetch and other calls in between, for a text longer than the cap
C3_Witness ==
    /\ call.tool = "fetch_pdf"
    /\ call.after_success
    /\ call.others_between
    /\ IsCachedResult(resp)
    /\ StrLen(fetched[call.url].text) > MaxContentChars

\* C4: a fetch that fails in the download or the extraction returns a
\* payload of the URL and an error message, leaves the cache entry of the
\* URL as it was and makes one request; the URL then has no cache entry, and
\* its next fetch makes a request again and does not report cached=true.
C4_FailureLeavesNoEntry ==
    /\ (call.tool = "fetch_pdf" /\ IsDownloadFailure(resp)) =>
          /\ DOMAIN resp = {"error", "url"}
          /\ resp.url = call.url
          /\ resp.error[2] # ""
          /\ cache[url_hash(call.url)] = call.entry_before
          /\ call.requests = 1
    /\ \A u \in FetchUrls : fetched[u].failed_last => ~cache[url_hash(u)].exists
    /\ (call.tool = "fetch_pdf" /\ call.after_failure) =>
          /\ call.requests = 1
          /\ ~IsCachedResult(resp)

\* C4 witness: after a failed fetch of a URL, its next fetch downloaded the
\* PDF and stored the text
C4_Witness ==
    /\ call.tool = "fetch_pdf"
    /\ call.after_failure
    /\ IsFreshResult(resp)
    /\ cache[url_hash(call.url)].exists

\* the entries of the catalog, nested under documents_by_category or in the
\* uncategorized bucket, that have the URL
ClaimEntriesOf(cat, url) ==
    Bind(ClaimTraversal(cat), LAMBDA entries :
        { entries[k].doc : k \in { n \in 1..Len(entries) : GetUrl(entries[n].doc) = url } })

\* C5 (as claimed): for a catalog of the curated shape, a fetch of a URL
\* that an entry of the catalog has returns that entry's title, and a
\* citation of that title and the URL; only a URL no entry has gets an empty
\* title and a citation of the bare URL.
C5_TitleResolvedFromNestedEntry ==
    (/\ call.tool = "fetch_pdf"
     /\ "error" \notin DOMAIN resp
     /\ "documents_by_category" \in DOMAIN catalog) =>
        IF ClaimEntriesOf(catalog, call.url) # {}
        THEN \E doc \in ClaimEntriesOf(catalog, call.url) :
                /\ resp.title = GetAiTitle(doc)
                /\ resp.citation = <<"S","o","u","r","c","e",":"," ">> \o GetAiTitle(doc) \o <<" ","-"," ">> \o call.url
        ELSE /\ resp.title = <<>>
             /\ resp.citation = <<"S","o","u","r","c","e",":"," ">> \o call.url

(***************************************************************************)
(* SpecMerge: adni.py run on discovery and scrape results that repeat URLs *)
(* and hold URLs differing only in scheme, case or trailing slash          *)
(***************************************************************************)
MergePageUrls ==
    { PageUrl, PageUrl \o <<"/">>, <<"h","t","t","p",":","/","/","a","d","n","i",".","l","o","n","i",".","u","s","c",".","e","d","u","/","a","b","o","u","t">>,
      Site \o <<"/","A","b","o","u","t">> }

MaxMergeUrls == 2

\* crawl_entire_site(): the URLs of the map response, repeats included
MergeLinkLists == SeqsUpTo(MergePageUrls, MaxMergeUrls)

\* scrape_pages_for_documents(): links to a document and to a page address
\* the site map may list too
MergeTitleMaps ==
    { [u \in keys |-> <<"A","D","N","I"," ","M","R","I"," ","O","v","e","r","v","i","e","w">>] : keys \in SUBSET {DocA, PageUrl \o <<"/">>} }

CrawlerMainMerges == CrawlerMain(MergeLinkLists, MergeTitleMaps)

NextMerge == CrawlerMainMerges /\ UNCHANGED <<crawlVars, taxonomyVars, serverVars>>

SpecMerge == InitPipeline /\ [][NextMerge]_vars

(***************************************************************************)
(* Claims about the merge of discovered URLs, under SpecMerge              *)
(***************************************************************************)
ClaimInputUrls == Range(crawl_run.all_page_urls) \cup DOMAIN crawl_run.link_titles_map

\* two URL strings that differ, but only in scheme, case or trailing slash
ClaimVariants(u, v) == u # v /\ NormalForm(u) = NormalForm(v)

\* C14: the merged sequence repeats no URL string, holds every URL of the
\* site-map results and of the scraped links, is no longer than the union
\* of the two as sets, and keeps URLs that differ only in case, scheme or
\* trailing slash as separate entries.
C14_MergeIsUnionWithoutRepeats ==
    crawl_run.status = "saved" =>
        \E merged \in {crawl_run.all_urls} :
            /\ \A i, j \in 1..Len(merged) : i # j => merged[i] # merged[j]
            /\ \A u \in ClaimInputUrls : \E i \in 1..Len(merged) : merged[i] = u
            /\ Len(merged) <= Cardinality(ClaimInputUrls)
            /\ \A u, v \in ClaimInputUrls :
                  ClaimVariants(u, v) =>
                      \E i, j \in 1..Len(merged) :
                          i # j /\ merged[i] = u /\ merged[j] = v

\* C14 witness: a merge of site-map results that hold two URLs differing
\* only in scheme, case or trailing slash, with scraped links that hold a
\* third such URL
C14_Witness ==
    /\ crawl_run.status = "saved"
    /\ \E u, v \in Range(crawl_run.all_page_urls) : ClaimVariants(u, v)
    /\ \E u \in Range(crawl_run.all_page_urls) :
       \E v \in DOMAIN crawl_run.link_titles_map : ClaimVariants(u, v)
    /\ Len(crawl_run.all_urls) = 3

(***************************************************************************)
(* Claims about running the pipeline twice, under SpecRerun                *)
(***************************************************************************)
SecondPassDone == first_run.status = "done" /\ curate_run.status = "done"

\* C11 (as claimed): a second pass of merge, classification and curation on
\* the same discovery and scrape results writes the catalog the first pass
\* wrote, with the same order of documents in every subcategory, and so a
\* search over it returns the same documents in the same order.
C11_SecondPassSameCatalog ==
    SecondPassDone =>
        /\ curated_file.data = first_run.catalog
        /\ search_catalog(curated_file.data, <<>>)
             = search_catalog(first_run.catalog, <<>>)

(***************************************************************************)
(* Claims about the text fetch_pdf stores and returns, under Spec          *)
(***************************************************************************)
\* the number of characters of a text, and of its parts before the k-th
ClaimCharsBefore(text, k) ==
    LET RECURSIVE Sum(_)
        Sum(j) == IF j = 0 THEN 0 ELSE text[j].chars + Sum(j - 1)
    IN  Sum(k - 1)
ClaimLength(text) == ClaimCharsBefore(text, Len(text) + 1)

\* the first n characters of a text: every part keeps what of it lies
\* before position n
ClaimPrefix(text, n) ==
    LET kept == [k \in 1..Len(text) |->
                    LET room == n - ClaimCharsBefore(text, k)
                    IN  IF room <= 0 THEN 0
                        ELSE IF room < text[k].chars THEN room
                        ELSE text[k].chars]
        count == Cardinality({k \in 1..Len(text) : kept[k] > 0})
    IN  [k \in 1..count |-> [text[k] EXCEPT !.chars = kept[k]]]

\* the cache entry the last fetch read or wrote
ClaimStoredText == cache[url_hash(call.url)].text

\* C12: on a cache hit and on a fresh extraction alike, the content is the
\* first 50,000 characters of the full stored text, followed by a notice of
\* the true total length exactly when the text is longer than 50,000
\* characters; the stored text is the whole extraction, not capped.
C12_CapAppliedOnEveryRead ==
    (call.tool = "fetch_pdf" /\ "content" \in DOMAIN resp) =>
        \E full \in {ClaimStoredText} :
        \E total \in {ClaimLength(ClaimStoredText)} :
            /\ resp.content =
                  ClaimPrefix(full, MaxContentChars)
                  \o (IF total > MaxContentChars
                      THEN <<ContentNotice(total)>> ELSE <<>>)
            /\ ClaimLength(ClaimPrefix(full, MaxContentChars))
                 = Min(total, MaxContentChars)
            /\ IsFreshResult(resp) => full = FullText(call.served.pdf)

\* C12 witness: a cache hit on a stored text longer than the cap, returned
\* cut inside a page with the notice of the stored length after it
C12_Witness ==
    /\ call.tool = "fetch_pdf"
    /\ IsCachedResult(resp)
    /\ ClaimLength(ClaimStoredText) > MaxContentChars
    /\ resp.content[Len(resp.content)] = ContentNotice(ClaimLength(ClaimStoredText))
    /\ resp.content[Len(resp.content) - 1].part = "page text"
    /\ resp.content[Len(resp.content) - 1].chars < LongPageChars

\* the text made of the blocks of the given pages, in that order, each with
\* its page-number marker first, joined by the separator, and the pages
\* notice after them when the PDF has more than 20 pages
ClaimJoined(pdf, page_numbers) ==
    LET n == Len(page_numbers)
        blocks == [j \in 1..(IF n = 0 THEN 0 ELSE 3 * n - 1) |->
                      IF j % 3 = 0 THEN Separator
                      ELSE PageBlock(pdf, page_numbers[(j + 2) \div 3])[j % 3]]
    IN  blocks \o (IF Len(pdf.pages) > MaxPages
                   THEN <<PagesNotice(MaxPages, Len(pdf.pages))>>
                   ELSE <<>>)

\* C13 (as claimed): a fresh fetch of a PDF of n pages stores the blocks of
\* all of the first min(20, n) pages in page order, each after its marker,
\* reports pages = n and pages_extracted = min(20, n), and appends the
\* pages notice exactly when n > 20.
C13_EveryPageHasBlock ==
    (call.tool = "fetch_pdf" /\ IsFreshResult(resp)) =>
        \E pdf \in {call.served.pdf} :
            /\ ClaimStoredText =
                  ClaimJoined(pdf, [k \in 1..Min(MaxPages, Len(pdf.pages)) |-> k])
            /\ resp.pages = Len(pdf.pages)
            /\ resp.pages_extracted = Min(MaxPages, Len(pdf.pages))

\* C13 (amended): as above, but a page whose extracted text is empty or
\* white space only adds neither marker nor block; the other pages keep
\* their own page numbers in the markers.
C13_NonBlankPagesHaveBlock ==
    (call.tool = "fetch_pdf" /\ IsFreshResult(resp)) =>
        \E pdf \in {call.served.pdf} :
            /\ ClaimStoredText =
                  ClaimJoined(pdf,
                      SelectSeq([k \in 1..Min(MaxPages, Len(pdf.pages)) |-> k],
                                LAMBDA k : ~pdf.pages[k].blank))
            /\ resp.pages = Len(pdf.pages)
            /\ resp.pages_extracted = Min(MaxPages, Len(pdf.pages))
            /\ (\E k \in 1..Len(ClaimStoredText) :
                    ClaimStoredText[k].part = "pages notice")
                 <=> Len(pdf.pages) > MaxPages

\* C13 witness: a fresh fetch of a PDF with more pages than are extracted
\* and a blank second page has stored no marker for page 2, and has the
\* marker and block of page 20 and then the pages notice at its end
C13_Witness ==
    /\ call.tool = "fetch_pdf"
    /\ IsFreshResult(resp)
    /\ resp.pages > MaxPages
    /\ call.served.pdf.pages[2].blank
    /\ \A k \in 1..Len(ClaimStoredText) : ClaimStoredText[k].page # 2
    /\ resp.pages_extracted = MaxPages
    /\ Len(ClaimStoredText) >= 3
    /\ ClaimStoredText[Len(ClaimStoredText)].part = "pages notice"
    /\ ClaimStoredText[Len(ClaimStoredText) - 1].page = MaxPages
    /\ ClaimStoredText[Len(ClaimStoredText) - 2].part = "page marker"


(***************************************************************************)
(* Claims about fetch_pdf calls in progress together, under SpecConcurrent *)
(***************************************************************************)
\* the text every extraction of the URL's PDF gives
ClaimExtraction(u) == FullText(origin[u].pdf)

\* every call has returned and one of them wrote the URL's cache file
ClaimAllReturnedAfterWrite(u) ==
    /\ \A c \in Callers : callers[c].pc = "done"
    /\ \E c \in Callers :
          callers[c].url = u /\ IsFreshResult(callers[c].result)

\* the caller's call for the URL returned a result marked as cached
ClaimServedFromCache(c, u) ==
    /\ callers[c].pc = "done"
    /\ callers[c].url = u
    /\ IsCachedResult(callers[c].result)

\* C15 as claimed: when callers fetch the same uncached URL at the same
\* time, then however their steps interleave, the cache entry left at the
\* end is the complete extraction of the URL, and no caller is given a
\* cached result whose content is anything but the returned part of that
\* complete extraction, such as the content of an empty or half-written
\* entry
C15_ConcurrentFetchesConsistent ==
    \A u \in FetchUrls :
        origin[u].kind = "pdf" =>
            /\ ClaimAllReturnedAfterWrite(u) =>
                   cache[url_hash(u)] =
                       [exists |-> TRUE, text |-> ClaimExtraction(u)]
            /\ \A c \in Callers :
                   ClaimServedFromCache(c, u) =>
                       callers[c].result.content =
                           ContentPreview(ClaimExtraction(u))

\* the part of C15 about the entry left at the end, on its own
C15_FinalEntryIsExtraction ==
    \A u \in FetchUrls :
        (origin[u].kind = "pdf" /\ ClaimAllReturnedAfterWrite(u)) =>
            cache[url_hash(u)] = [exists |-> TRUE, text |-> ClaimExtraction(u)]

====
